---- MODULE Spec2Model ----
(***************************************************************************)
(* A model of the Lea Transaction Manifest toolkit (LEA-Blockchain/ltm):   *)
(* the manifest resolver, the MSCTP (TVF) codec, the transaction encoder,  *)
(* createTransaction's signing protocol, decodeTransaction and             *)
(* verifyTransactionWithKeyset.                                            *)
(*                                                                         *)
(* Conventions.  A byte string (Uint8Array) is a sequence of 0..255.  A JS *)
(* string is a sequence of one-character strings.  A JS Set is a sequence  *)
(* without repetitions in insertion order, a JS Map / plain object a       *)
(* sequence of entries in insertion order.  A function that may throw      *)
(* returns a record with a field ok; the field err names the failure.      *)
(* BLAKE3 digests of transaction bytes and the Ed25519 / Falcon-512        *)
(* primitives are external and are modelled as free (injective) terms.     *)
(***************************************************************************)
EXTENDS Integers, Sequences, FiniteSets, TLC

(***************************************************************************)
(* Bounds of the model and program constants.                              *)
(***************************************************************************)
MaxRefs == 2

AddrLen == 32

MSCTP_TT_SLEB128 == 0
MSCTP_TT_ULEB128 == 1
MSCTP_TT_SMALL_VECTOR == 2
MSCTP_TT_LARGE_VECTOR == 3
MSCTP_TT_MASK == 3
MSCTP_MAX_SMALL_VECTOR_SIZE == 63
MSCTP_MAX_LARGE_VECTOR_SIZE == 1048576

(***************************************************************************)
(* Generic helpers for sequences standing for JS arrays, Sets and Maps.    *)
(***************************************************************************)
Range(s) == {s[i] : i \in 1..Len(s)}

Ok(v) == [ok |-> TRUE, val |-> v]

Fail(e) == [ok |-> FALSE, err |-> e]

(* A value that is used more than once is bound once:                      *)
(* With([x \in {e} |-> body]) is body with x standing for the value of e.  *)
With(f) == f[CHOOSE x \in DOMAIN f : TRUE]

StartsWith(s, p) == Len(s) >= Len(p) /\ SubSeq(s, 1, Len(p)) = p

RECURSIVE Flatten(_)
Flatten(ss) == IF ss = <<>> THEN <<>> ELSE Head(ss) \o Flatten(Tail(ss))

SetAdd(set, x) == IF x \in Range(set) THEN set ELSE Append(set, x)

RECURSIVE SetFrom(_)
SetFrom(items) ==
    IF items = <<>> THEN <<>>
    ELSE SetAdd(SetFrom(SubSeq(items, 1, Len(items) - 1)), items[Len(items)])

MapHas(m, k) == \E i \in 1..Len(m) : m[i][1] = k

MapGet(m, k) == m[CHOOSE i \in 1..Len(m) : m[i][1] = k][2]

MapSet(m, k, v) ==
    IF MapHas(m, k)
    THEN [i \in 1..Len(m) |-> IF m[i][1] = k THEN <<k, v>> ELSE m[i]]
    ELSE Append(m, <<k, v>>)

RECURSIVE MapFrom(_)
MapFrom(entries) ==
    IF entries = <<>> THEN <<>>
    ELSE MapSet(MapFrom(SubSeq(entries, 1, Len(entries) - 1)),
                entries[Len(entries)][1], entries[Len(entries)][2])

(***************************************************************************)
(* manifestResolver: utility functions.                                    *)
(***************************************************************************)
LowerHex == <<"0","1","2","3","4","5","6","7","8","9","a","b","c","d","e","f">>

UpperHex == <<"0","1","2","3","4","5","6","7","8","9","A","B","C","D","E","F">>

HexValues ==
    [c \in {LowerHex[i] : i \in 1..16} \cup {UpperHex[i] : i \in 1..16} |->
        (CHOOSE i \in 1..16 : LowerHex[i] = c \/ UpperHex[i] = c) - 1]

IsHexChar(c) == c \in DOMAIN HexValues

HexDigitValue(c) == HexValues[c]

hexToBytes(hexIn) ==
    LET hex == IF StartsWith(hexIn, <<"0","x">>) THEN SubSeq(hexIn, 3, Len(hexIn)) ELSE hexIn
    IN  IF Len(hex) % 2 # 0 \/ \E i \in 1..Len(hex) : ~IsHexChar(hex[i])
        THEN Fail("InvalidHex")
        ELSE Ok([i \in 1..(Len(hex) \div 2) |->
                    16 * HexDigitValue(hex[2 * i - 1]) + HexDigitValue(hex[2 * i])])

bytesToHex(bytes) ==
    [i \in 1..(2 * Len(bytes)) |->
        IF i % 2 = 1 THEN LowerHex[(bytes[(i + 1) \div 2] \div 16) + 1]
                     ELSE LowerHex[(bytes[(i + 1) \div 2] % 16) + 1]]

compareByteArrays(a, b) ==
    LET len  == IF Len(a) < Len(b) THEN Len(a) ELSE Len(b)
        diff == {i \in 1..len : a[i] # b[i]}
    IN  IF diff # {}
        THEN LET i == CHOOSE j \in diff : \A k \in diff : j <= k
             IN  a[i] - b[i]
        ELSE Len(a) - Len(b)

(* Array.prototype.sort(compareByteArrays): a stable sort, here by insertion. *)
RECURSIVE InsertSorted(_, _)
InsertSorted(sorted, x) ==
    IF sorted = <<>> THEN <<x>>
    ELSE IF compareByteArrays(x, sorted[Len(sorted)]) >= 0 THEN Append(sorted, x)
    ELSE Append(InsertSorted(SubSeq(sorted, 1, Len(sorted) - 1), x), sorted[Len(sorted)])

SortDoesNothing(list) == list

RECURSIVE SortByteArrays(_)
SortByteArrays(list) ==
    IF list = <<>> THEN <<>>
    ELSE InsertSorted(SortByteArrays(SubSeq(list, 1, Len(list) - 1)), list[Len(list)])

(***************************************************************************)
(* bech32m.mjs (not part of the sources at hand): Bech32m with a direct    *)
(* 8-bit to 5-bit regrouping, an HRP check and a checksum check.  The      *)
(* checksum polynomial is abstracted to a position-weighted sum.           *)
(***************************************************************************)
Bech32Charset ==
    <<"q","p","z","r","y","9","x","8","g","f","2","t","v","d","w","0",
      "s","3","j","n","5","4","k","h","c","e","6","m","u","a","7","l">>

Bech32Values ==
    [c \in {Bech32Charset[v] : v \in 1..32} |-> (CHOOSE v \in 1..32 : Bech32Charset[v] = c) - 1]

Pow2 == [n \in 0..15 |-> 2 ^ n]

ByteAtOrZero(bytes, i) == IF i <= Len(bytes) THEN bytes[i] ELSE 0

(* Group g holds bits 5g .. 5g+4 of the byte string, zero-padded at the end. *)
ConvertBits8to5(bytes) ==
    [g \in 1..((8 * Len(bytes) + 4) \div 5) |->
        LET bit  == 5 * (g - 1)
            from == (bit \div 8) + 1
            pair == 256 * ByteAtOrZero(bytes, from) + ByteAtOrZero(bytes, from + 1)
        IN  (pair \div Pow2[11 - (bit % 8)]) % 32]

(* Byte b holds bits 8b .. 8b+7 of the group string; incomplete bytes are   *)
(* dropped.                                                                 *)
ConvertBits5to8(vals) ==
    [b \in 1..((5 * Len(vals)) \div 8) |->
        LET bit    == 8 * (b - 1)
            from   == (bit \div 5) + 1
            triple == 1024 * ByteAtOrZero(vals, from) + 32 * ByteAtOrZero(vals, from + 1)
                      + ByteAtOrZero(vals, from + 2)
        IN  (triple \div Pow2[7 - (bit % 5)]) % 256]

(* The padding bits: the bits of the groups beyond the last whole byte. *)
PaddingBits(vals) ==
    IF vals = <<>> THEN 0 ELSE vals[Len(vals)] % Pow2[(5 * Len(vals)) % 8]

(* the sum of n * (vals[n] + 1) over lo..hi *)
RECURSIVE WeightedSum(_, _, _)
WeightedSum(vals, lo, hi) ==
    IF lo > hi THEN 0
    ELSE IF lo = hi THEN lo * (vals[lo] + 1)
    ELSE WeightedSum(vals, lo, (lo + hi) \div 2) + WeightedSum(vals, (lo + hi) \div 2 + 1, hi)

Bech32mChecksum(hrp, vals) ==
    LET sum == WeightedSum(vals, 1, Len(vals)) % 1024
    IN  [j \in 1..6 |-> (sum \div j + j * Len(hrp)) % 32]

Bech32mEncode(hrp, bytes) ==
    LET vals == ConvertBits8to5(bytes)
        all  == vals \o Bech32mChecksum(hrp, vals)
    IN  hrp \o <<"1">> \o [i \in 1..Len(all) |-> Bech32Charset[all[i] + 1]]

Bech32mDecode(hrp, str) ==
    LET body == SubSeq(str, Len(hrp) + 2, Len(str))
        good == /\ StartsWith(str, hrp \o <<"1">>)
                /\ Len(body) >= 6
                /\ \A i \in 1..Len(body) : body[i] \in DOMAIN Bech32Values
        all  == [i \in 1..Len(body) |-> Bech32Values[body[i]]]
        vals == SubSeq(all, 1, Len(all) - 6)
    IN  IF ~good THEN Fail("BadAddress")
        ELSE IF SubSeq(all, Len(all) - 5, Len(all)) # Bech32mChecksum(hrp, vals)
             THEN Fail("BadAddress")
        ELSE IF PaddingBits(vals) # 0 THEN Fail("BadAddress")
        ELSE Ok(ConvertBits5to8(vals))

ADDRESS_HRP == <<"l","e","a">>

decodeAddress(addressStr) ==
    IF StartsWith(addressStr, <<"l","e","a","1">>)
    THEN Bech32mDecode(ADDRESS_HRP, addressStr)
    ELSE hexToBytes(addressStr)

(***************************************************************************)
(* External primitives.  BLAKE3 over key material yields the 32 address    *)
(* bytes (a fixed table, injective on the keys of the model); BLAKE3 over  *)
(* transaction bytes and the signatures are free terms.                    *)
(***************************************************************************)
Blake3Address(data) ==
    [i \in 1..AddrLen |->
        IF i = 1 THEN (CASE data[1] = 1 -> 80 [] data[1] = 2 -> 32 [] OTHER -> 32)
        ELSE IF i = AddrLen THEN (IF data[1] = 3 THEN 1 ELSE 0)
        ELSE 0]

Blake3(data) == [blake3 |-> data]

Blake3Then(data, parts) == [blake3 |-> data, then |-> parts]

(***************************************************************************)
(* PkmiCryptoHandler.                                                      *)
(***************************************************************************)
generateAddress(keyset) ==
    LET addressHash == Blake3Address(keyset.ed25519.pk \o keyset.falcon512.pk)
    IN  [addressBech32m |-> Bech32mEncode(ADDRESS_HRP, addressHash),
         addressUint8   |-> addressHash]

ToLowerCase(str) ==
    [i \in 1..Len(str) |->
        IF \E j \in 11..16 : UpperHex[j] = str[i]
        THEN LowerHex[CHOOSE j \in 11..16 : UpperHex[j] = str[i]]
        ELSE str[i]]

loadKeysetFromObject(input) ==
    LET parsed  == [ed25519   |-> [sk |-> input.keyset[1][1], pk |-> input.keyset[1][2]],
                    falcon512 |-> [sk |-> input.keyset[2][1], pk |-> input.keyset[2][2]]]
        address == generateAddress(parsed)
    IN  IF Len(input.keyset) # 2 \/ Len(input.keyset[1]) # 2 \/ Len(input.keyset[2]) # 2
        THEN Fail("InvalidKeyset")
        ELSE IF input.address # <<>>
                /\ ToLowerCase(input.address) # ToLowerCase(address.addressBech32m)
        THEN Fail("KeyAddressMismatch")
        ELSE IF input.addressHex # <<>>
                /\ ToLowerCase(input.addressHex) # bytesToHex(address.addressUint8)
        THEN Fail("KeyAddressMismatch")
        ELSE Ok([keyset         |-> parsed,
                 addressBech32m |-> address.addressBech32m,
                 addressUint8   |-> address.addressUint8])

(***************************************************************************)
(* manifestResolver: the resolver passes.  A manifest is a record          *)
(*   [pod, feePayer, sequence, gasLimit, gasPrice, constants, signers,     *)
(*    invocations]                                                         *)
(* with pod and feePayer strings (the empty string when absent), constants *)
(* a sequence of <<name, string>> entries, signers a sequence of           *)
(* <<name, handler>> entries and invocations a sequence of                 *)
(* [targetAddress, instructions].  An instruction is [key, str] (a string  *)
(* value), [key, num] (a number) or [key, bytes] (a Uint8Array).           *)
(***************************************************************************)
ConstPrefix == <<"$","c","o","n","s","t","(">>

AddrPrefix == <<"$","a","d","d","r","(">>

PubsetPrefix == <<"$","p","u","b","s","e","t","(">>

HasAt(str, i, p) == i + Len(p) - 1 <= Len(str) /\ SubSeq(str, i, i + Len(p) - 1) = p

(* The end of a match of /\$const\(([^)]+)\)/ starting at i, or 0. *)
ConstMatchEnd(str, i) ==
    IF ~HasAt(str, i, ConstPrefix) THEN 0
    ELSE LET closing == {p \in (i + 7)..Len(str) : str[p] = ")"}
         IN  IF closing = {} THEN 0
             ELSE LET p == CHOOSE q \in closing : \A r \in closing : q <= r
                  IN  IF p >= i + 8 THEN p ELSE 0

(* String.replace with the /g pattern: the matches from left to right, each *)
(* replaced by the constant's value with its own constants resolved.        *)
RECURSIVE ReplaceConstants(_, _)
ReplaceConstants(str, constants) ==
    LET matches == {i \in 1..Len(str) : ConstMatchEnd(str, i) # 0}
    IN  IF matches = {} THEN Ok(str)
        ELSE LET i   == CHOOSE m \in matches : \A n \in matches : m <= n
                 e   == ConstMatchEnd(str, i)
                 key == SubSeq(str, i + 7, e - 1)
             IN  IF ~MapHas(constants, key) THEN Fail("UnknownConstant")
                 ELSE LET sub  == ReplaceConstants(MapGet(constants, key), constants)
                          rest == ReplaceConstants(SubSeq(str, e + 1, Len(str)), constants)
                      IN  IF ~sub.ok THEN sub
                          ELSE IF ~rest.ok THEN rest
                          ELSE Ok(SubSeq(str, 1, i - 1) \o sub.val \o rest.val)

_resolveConstantsString(str, constants) == ReplaceConstants(str, constants)

(* /^\$addr\((.+)\)$/ *)
AddrMatch(str) ==
    StartsWith(str, AddrPrefix) /\ Len(str) >= Len(AddrPrefix) + 2 /\ str[Len(str)] = ")"

AddrKey(str) == SubSeq(str, Len(AddrPrefix) + 1, Len(str) - 1)

(* /^\$pubset\(([^)]+)\)$/ *)
PubsetMatch(str) ==
    /\ StartsWith(str, PubsetPrefix) /\ Len(str) >= Len(PubsetPrefix) + 2
    /\ str[Len(str)] = ")"
    /\ \A i \in (Len(PubsetPrefix) + 1)..(Len(str) - 1) : str[i] # ")"

PubsetKey(str) == SubSeq(str, Len(PubsetPrefix) + 1, Len(str) - 1)

IsStr(instr) == "str" \in DOMAIN instr

IsNum(instr) == "num" \in DOMAIN instr

IsBytes(instr) == "bytes" \in DOMAIN instr

(* The strings of the template in the order a recursive walk meets them:   *)
(* feePayer, then per invocation targetAddress and the instruction values. *)
InstructionStrings(instructions) ==
    LET idx == {i \in 1..Len(instructions) : IsStr(instructions[i])}
        RECURSIVE Walk(_)
        Walk(i) == IF i > Len(instructions) THEN <<>>
                   ELSE (IF i \in idx THEN <<instructions[i].str>> ELSE <<>>) \o Walk(i + 1)
    IN  Walk(1)

RECURSIVE InvocationStrings(_)
InvocationStrings(invocations) ==
    IF invocations = <<>> THEN <<>>
    ELSE <<Head(invocations).targetAddress>>
         \o InstructionStrings(Head(invocations).instructions)
         \o InvocationStrings(Tail(invocations))

TemplateStrings(template) ==
    <<template.feePayer>> \o InvocationStrings(template.invocations)

(* The first failure among results, in walk order, or none. *)
FirstFailure(results) ==
    IF \A i \in 1..Len(results) : results[i].ok THEN Ok(<<>>)
    ELSE results[CHOOSE i \in 1..Len(results) :
                    ~results[i].ok /\ \A j \in 1..(i - 1) : results[j].ok]

(* Pass 1. *)
_resolveConstants(template, constants) ==
    LET R(str) == _resolveConstantsString(str, constants)
        strs   == TemplateStrings(template)
        failed == FirstFailure([i \in 1..Len(strs) |-> R(strs[i])])
    IN  IF ~failed.ok THEN failed
        ELSE Ok([template EXCEPT
                !.feePayer = R(template.feePayer).val,
                !.invocations = [n \in 1..Len(template.invocations) |->
                    [targetAddress |-> R(template.invocations[n].targetAddress).val,
                     instructions  |->
                        [k \in 1..Len(template.invocations[n].instructions) |->
                            LET ins == template.invocations[n].instructions[k]
                            IN  IF IsStr(ins) THEN [ins EXCEPT !.str = R(ins.str).val]
                                ELSE ins]]]])

(***************************************************************************)
(* MSCTP encoder (msctp.js).  An encoder is its sequence of chunks.        *)
(***************************************************************************)
msctp_make_header(modifier, tt) == modifier * 4 + (tt % (MSCTP_TT_MASK + 1))

msctp_get_tt(header) == header % (MSCTP_TT_MASK + 1)

msctp_get_modifier(header) == header \div 4

RECURSIVE _encode_raw_uleb128(_)
_encode_raw_uleb128(value) ==
    IF value < 128 THEN <<value>>
    ELSE <<(value % 128) + 128>> \o _encode_raw_uleb128(value \div 128)

(* value >> 7 on a BigInt is the floor division by 128. *)
FloorDiv128(value) == IF value >= 0 THEN value \div 128 ELSE -((-value + 127) \div 128)

RECURSIVE _encode_raw_sleb128(_)
_encode_raw_sleb128(value) ==
    LET byte    == value - 128 * FloorDiv128(value)
        rest    == FloorDiv128(value)
        signBit == byte >= 64
    IN  IF (rest = 0 /\ ~signBit) \/ (rest = -1 /\ signBit) THEN <<byte>>
        ELSE <<byte + 128>> \o _encode_raw_sleb128(rest)

addUleb128(chunks, value) ==
    IF value < 0 THEN chunks
    ELSE Append(chunks, <<msctp_make_header(0, MSCTP_TT_ULEB128)>> \o _encode_raw_uleb128(value))

addSleb128(chunks, value) ==
    Append(chunks, <<msctp_make_header(0, MSCTP_TT_SLEB128)>> \o _encode_raw_sleb128(value))

addVectorSmallHeaderFor64(chunks, data) ==
    LET len == Len(data)
    IN  IF len <= MSCTP_MAX_SMALL_VECTOR_SIZE + 1
        THEN Append(chunks, <<msctp_make_header(len, MSCTP_TT_SMALL_VECTOR)>> \o data)
        ELSE IF len <= MSCTP_MAX_LARGE_VECTOR_SIZE
        THEN Append(chunks, <<msctp_make_header(0, MSCTP_TT_LARGE_VECTOR)>>
                                \o _encode_raw_uleb128(len) \o data)
        ELSE chunks

addVector(chunks, data) ==
    LET len == Len(data)
    IN  IF len <= MSCTP_MAX_SMALL_VECTOR_SIZE
        THEN Append(chunks, <<msctp_make_header(len, MSCTP_TT_SMALL_VECTOR)>> \o data)
        ELSE IF len <= MSCTP_MAX_LARGE_VECTOR_SIZE
        THEN Append(chunks, <<msctp_make_header(0, MSCTP_TT_LARGE_VECTOR)>>
                                \o _encode_raw_uleb128(len) \o data)
        ELSE chunks

build(chunks) == Flatten(chunks)

(***************************************************************************)
(* PkmiCryptoHandler.pubset and the primitives behind signMessage.         *)
(***************************************************************************)
pubsetOfSecretKeys(handler) ==
    build(addVector(addUleb128(addVector(addUleb128(<<>>, 0),
                                         handler.keyset.ed25519.sk), 1),
                    handler.keyset.falcon512.sk))

pubset(handler) ==
    build(addVector(addUleb128(addVector(addUleb128(<<>>, 0),
                                         handler.keyset.ed25519.pk), 1),
                    handler.keyset.falcon512.pk))

(***************************************************************************)
(* manifestResolver: passes 1.5 to 5 and resolveManifest.                  *)
(***************************************************************************)
(* Pass 1.5. *)
_resolvePubsets(template, signers) ==
    LET strs   == TemplateStrings(template)
        R(str) == IF PubsetMatch(str) /\ ~MapHas(signers, PubsetKey(str))
                  THEN Fail("UnknownSigner") ELSE Ok(str)
        failed == FirstFailure([i \in 1..Len(strs) |-> R(strs[i])])
    IN  IF ~failed.ok THEN failed
        ELSE Ok([template EXCEPT
                !.invocations = [n \in 1..Len(template.invocations) |->
                    [template.invocations[n] EXCEPT
                     !.instructions =
                        [k \in 1..Len(template.invocations[n].instructions) |->
                            LET ins == template.invocations[n].instructions[k]
                            IN  IF IsStr(ins) /\ PubsetMatch(ins.str)
                                THEN [key   |-> ins.key,
                                      bytes |-> pubset(MapGet(signers, PubsetKey(ins.str)))]
                                ELSE ins]]]])

(* Pass 2. *)
_buildAliasMap(signers, constants) ==
    MapFrom([i \in 1..Len(signers) |-> <<signers[i][1], signers[i][2].addressBech32m>>]
            \o constants)

(* aliasMap.get(key) || key *)
LiteralOf(aliasMap, key) ==
    IF MapHas(aliasMap, key) /\ MapGet(aliasMap, key) # <<>> THEN MapGet(aliasMap, key) ELSE key

(* Pass 3. *)
_collectLiteralAddressStrings(template, aliasMap) ==
    LET strs == TemplateStrings(template)
        RECURSIVE Collect(_)
        Collect(n) ==
            IF n = 0 THEN <<>>
            ELSE IF AddrMatch(strs[n])
                 THEN SetAdd(Collect(n - 1), LiteralOf(aliasMap, AddrKey(strs[n])))
                 ELSE Collect(n - 1)
    IN  Collect(Len(strs))

(* Array.prototype.filter with a predicate that rejects the members of a   *)
(* set, in the order of the array.                                         *)
Filter(seq, rejected) ==
    LET RECURSIVE F(_)
        F(n) == IF n = 0 THEN <<>>
                ELSE IF seq[n] \notin rejected THEN Append(F(n - 1), seq[n]) ELSE F(n - 1)
    IN  F(Len(seq))

(* literal -> index for every known literal whose bytes are in the list;   *)
(* new Map(list.map((bytes, i) => [hex, i])) keeps the last index of a hex. *)
IndexMapOf(finalAddressList, knownLiterals) ==
    LET addressMapByHex ==
            <<>> \o [i \in 1..Len(finalAddressList) |-> bytesToHex(finalAddressList[i])]
        RECURSIVE Entries(_)
        Entries(n) ==
            IF n = 0 THEN <<>>
            ELSE LET hex  == bytesToHex(decodeAddress(knownLiterals[n]).val)
                     hits == {i \in 1..Len(addressMapByHex) : addressMapByHex[i] = hex}
                 IN  IF hits = {} THEN Entries(n - 1)
                     ELSE Append(Entries(n - 1),
                                 <<knownLiterals[n],
                                   (CHOOSE i \in hits : \A j \in hits : j <= i) - 1>>)
    IN  Entries(Len(knownLiterals))

DecodeAll(literals) == [n \in 1..Len(literals) |-> decodeAddress(literals[n])]

ValuesOf(results) == [n \in 1..Len(results) |-> results[n].val]

CanonicalList(feePayerBytes, otherSignerBytes, nonSignerBytes) ==
    <<feePayerBytes>> \o otherSignerBytes \o nonSignerBytes

_createCanonicalAddressListFeePayerUnchecked(literalAddressSet, constResolvedManifest, originalSigners) ==
    LET feePayerAlias == constResolvedManifest.feePayer
        hasSigners    == Len(originalSigners) > 0
    IN  IF ~hasSigners
        THEN With([decoded \in {DecodeAll(literalAddressSet)} |->
             With([failed \in {FirstFailure(decoded)} |->
             IF ~failed.ok THEN failed
             ELSE With([nonSignerBytes \in {SortByteArrays(ValuesOf(decoded))} |->
                  Ok([finalAddressList       |-> nonSignerBytes,
                      literalAddressIndexMap |->
                          IndexMapOf(nonSignerBytes, literalAddressSet)])])])])
        ELSE IF ~MapHas(originalSigners, feePayerAlias) THEN Fail("UnknownFeePayer")
        ELSE
        LET feePayerSigner == MapGet(originalSigners, feePayerAlias)
            feePayerLiteralAddress == feePayerSigner.addressBech32m
            feePayerBytes == feePayerSigner.addressUint8
            signerLiteralAddresses ==
                SetFrom([i \in 1..Len(originalSigners) |-> originalSigners[i][2].addressBech32m])
            otherSignerLiterals ==
                Filter(signerLiteralAddresses, {feePayerLiteralAddress})
            nonSignerLiterals ==
                Filter(literalAddressSet, Range(signerLiteralAddresses))
            allKnownLiterals == SetFrom(literalAddressSet \o signerLiteralAddresses)
        IN  With([otherDecoded \in {DecodeAll(otherSignerLiterals)} |->
            With([nonDecoded \in {DecodeAll(nonSignerLiterals)} |->
            With([failed \in {FirstFailure(otherDecoded \o nonDecoded)} |->
            IF ~failed.ok THEN failed
            ELSE With([finalAddressListBytes \in
                          {CanonicalList(feePayerBytes, SortByteArrays(ValuesOf(otherDecoded)),
                                         SortByteArrays(ValuesOf(nonDecoded)))} |->
                 Ok([finalAddressList       |-> finalAddressListBytes,
                     literalAddressIndexMap |->
                         IndexMapOf(finalAddressListBytes, allKnownLiterals)])])])])])

(* Pass 4. *)
_createCanonicalAddressListAndIndexMap(literalAddressSet, constResolvedManifest, originalSigners) ==
    LET feePayerAlias == constResolvedManifest.feePayer
        hasSigners    == Len(originalSigners) > 0
    IN  IF ~hasSigners
        THEN With([decoded \in {DecodeAll(literalAddressSet)} |->
             With([failed \in {FirstFailure(decoded)} |->
             IF ~failed.ok THEN failed
             ELSE With([nonSignerBytes \in {SortByteArrays(ValuesOf(decoded))} |->
                  Ok([finalAddressList       |-> nonSignerBytes,
                      literalAddressIndexMap |->
                          IndexMapOf(nonSignerBytes, literalAddressSet)])])])])
        ELSE IF feePayerAlias = <<>> THEN Fail("MissingFeePayer")
        ELSE IF ~MapHas(originalSigners, feePayerAlias) THEN Fail("UnknownFeePayer")
        ELSE
        LET feePayerSigner == MapGet(originalSigners, feePayerAlias)
            feePayerLiteralAddress == feePayerSigner.addressBech32m
            feePayerBytes == feePayerSigner.addressUint8
            signerLiteralAddresses ==
                SetFrom([i \in 1..Len(originalSigners) |-> originalSigners[i][2].addressBech32m])
            otherSignerLiterals ==
                Filter(signerLiteralAddresses, {feePayerLiteralAddress})
            nonSignerLiterals ==
                Filter(literalAddressSet, Range(signerLiteralAddresses))
            allKnownLiterals == SetFrom(literalAddressSet \o signerLiteralAddresses)
        IN  With([otherDecoded \in {DecodeAll(otherSignerLiterals)} |->
            With([nonDecoded \in {DecodeAll(nonSignerLiterals)} |->
            With([failed \in {FirstFailure(otherDecoded \o nonDecoded)} |->
            IF ~failed.ok THEN failed
            ELSE With([finalAddressListBytes \in
                          {CanonicalList(feePayerBytes, SortByteArrays(ValuesOf(otherDecoded)),
                                         SortByteArrays(ValuesOf(nonDecoded)))} |->
                 Ok([finalAddressList       |-> finalAddressListBytes,
                     literalAddressIndexMap |->
                         IndexMapOf(finalAddressListBytes, allKnownLiterals)])])])])])

IndexOfAddr(str, aliasMap, literalAddressIndexMap) ==
    LET literalAddress == LiteralOf(aliasMap, AddrKey(str))
    IN  IF ~MapHas(literalAddressIndexMap, literalAddress) THEN Fail("UnresolvedAddress")
        ELSE Ok(MapGet(literalAddressIndexMap, literalAddress))

(* Pass 5.  A replaced string becomes [num |-> index]; any other keeps [str]. *)
_resolveToIndices(template, aliasMap, literalAddressIndexMap) ==
    LET strs   == TemplateStrings(template)
        R(str) == IF AddrMatch(str) THEN IndexOfAddr(str, aliasMap, literalAddressIndexMap)
                  ELSE Ok(-1)
        failed == FirstFailure([i \in 1..Len(strs) |-> R(strs[i])])
    IN  IF ~failed.ok THEN failed
        ELSE Ok([template EXCEPT
                !.invocations = [n \in 1..Len(template.invocations) |->
                    LET inv == template.invocations[n]
                    IN  [targetAddress |->
                            IF AddrMatch(inv.targetAddress)
                            THEN [num |-> R(inv.targetAddress).val]
                            ELSE [str |-> inv.targetAddress],
                         instructions  |->
                            [k \in 1..Len(inv.instructions) |->
                                LET ins == inv.instructions[k]
                                IN  IF IsStr(ins) /\ AddrMatch(ins.str)
                                    THEN [key |-> ins.key, num |-> R(ins.str).val]
                                    ELSE ins]]]])

DefaultPod == [i \in 1..AddrLen |-> 17]

resolveManifest(input) ==
    LET template == [feePayer    |-> input.feePayer,
                     sequence    |-> input.sequence,
                     gasLimit    |-> input.gasLimit,
                     gasPrice    |-> input.gasPrice,
                     invocations |-> input.invocations]
    IN  With([podBytes \in {IF input.pod # <<>> THEN decodeAddress(input.pod)
                            ELSE Ok(DefaultPod)} |->
        IF ~podBytes.ok THEN podBytes
        ELSE IF Len(podBytes.val) # AddrLen THEN Fail("PodLength")
        ELSE With([pass1 \in {_resolveConstants(template, input.constants)} |->
        IF ~pass1.ok THEN pass1
        ELSE With([pass15 \in {_resolvePubsets(pass1.val, input.signers)} |->
        IF ~pass15.ok THEN pass15
        ELSE LET aliasMap == _buildAliasMap(input.signers, input.constants)
                 literalAddressSet == _collectLiteralAddressStrings(pass15.val, aliasMap)
        IN  With([pass4 \in {_createCanonicalAddressListAndIndexMap(
                                  literalAddressSet, pass15.val, input.signers)} |->
        IF ~pass4.ok THEN pass4
        ELSE With([pass5 \in {_resolveToIndices(pass15.val, aliasMap,
                                                pass4.val.literalAddressIndexMap)} |->
        IF ~pass5.ok THEN pass5
        ELSE Ok([pod         |-> podBytes.val,
                 sequence    |-> input.sequence,
                 gasLimit    |-> input.gasLimit,
                 gasPrice    |-> input.gasPrice,
                 invocations |-> pass5.val.invocations,
                 signers     |-> input.signers,
                 addresses   |-> pass4.val.finalAddressList,
                 feePayer    |-> IF Len(input.signers) > 0 THEN <<0>> ELSE <<>>,
                 maps        |-> [alias   |-> aliasMap,
                                  literal |-> pass4.val.literalAddressIndexMap]])])])])])])

(***************************************************************************)
(* MSCTP decoder (msctp.js).  A decoder is its data and its offset (the    *)
(* number of bytes consumed); a read returns the value and the new offset. *)
(***************************************************************************)
RECURSIVE LebLength(_, _)
LebLength(data, i) ==
    IF i > Len(data) THEN 0
    ELSE IF data[i] < 128 THEN i
    ELSE LebLength(data, i + 1)

RECURSIVE LebValue(_, _, _)
LebValue(data, j, n) ==
    IF j = n THEN data[j] % 128
    ELSE (data[j] % 128) + 128 * LebValue(data, j + 1, n)

RECURSIVE Pow128(_)
Pow128(n) == IF n = 0 THEN 1 ELSE 128 * Pow128(n - 1)

_decode_raw_uleb128(data) ==
    LET i == LebLength(data, 1)
    IN  IF i = 0 THEN Fail("MalformedLeb128")
        ELSE LET value == LebValue(data, 1, i)
             IN  IF Len(_encode_raw_uleb128(value)) # i THEN Fail("OverlongLeb128")
                 ELSE Ok(<<value, i>>)

_decode_raw_sleb128_lenient(data) ==
    LET i == LebLength(data, 1)
    IN  IF i = 0 THEN Fail("MalformedLeb128")
        ELSE LET raw   == LebValue(data, 1, i)
                 value == IF data[i] % 128 >= 64 THEN raw - Pow128(i) ELSE raw
             IN  Ok(<<value, i>>)

_decode_raw_sleb128(data) ==
    LET i == LebLength(data, 1)
    IN  IF i = 0 THEN Fail("MalformedLeb128")
        ELSE LET raw   == LebValue(data, 1, i)
                 value == IF data[i] % 128 >= 64 THEN raw - Pow128(i) ELSE raw
             IN  IF Len(_encode_raw_sleb128(value)) # i THEN Fail("OverlongLeb128")
                 ELSE Ok(<<value, i>>)

MsctpDecoder(data) == [data |-> data, offset |-> 0]

hasNext(decoder) == decoder.offset < Len(decoder.data)

(* this.data[this.offset]; past the end it is undefined, which the bit     *)
(* operations of msctp_get_tt and msctp_get_modifier read as 0.            *)
HeaderAt(decoder) == IF hasNext(decoder) THEN decoder.data[decoder.offset + 1] ELSE 0

Subarray(data, from) == SubSeq(data, from + 1, Len(data))

peekType(decoder) == msctp_get_tt(HeaderAt(decoder))

readSleb128(decoder) ==
    LET header == HeaderAt(decoder)
    IN  IF msctp_get_tt(header) # MSCTP_TT_SLEB128 \/ msctp_get_modifier(header) # 0
        THEN Fail("InvalidHeader")
        ELSE LET raw == _decode_raw_sleb128(Subarray(decoder.data, decoder.offset + 1))
             IN  IF ~raw.ok THEN raw
                 ELSE Ok([value  |-> raw.val[1],
                          offset |-> decoder.offset + raw.val[2] + 1])

readUleb128(decoder) ==
    LET header == HeaderAt(decoder)
    IN  IF msctp_get_tt(header) # MSCTP_TT_ULEB128 \/ msctp_get_modifier(header) # 0
        THEN Fail("InvalidHeader")
        ELSE LET raw == _decode_raw_uleb128(Subarray(decoder.data, decoder.offset + 1))
             IN  IF ~raw.ok THEN raw
                 ELSE Ok([value  |-> raw.val[1],
                          offset |-> decoder.offset + raw.val[2] + 1])

readVectorBoundsFirst(decoder) ==
    LET header == HeaderAt(decoder)
        tt     == msctp_get_tt(header)
        data   == decoder.data
        offset == decoder.offset
    IN  IF tt = MSCTP_TT_SMALL_VECTOR
        THEN LET totalLen == 1 + msctp_get_modifier(header)
             IN  IF Len(data) < offset + totalLen THEN Fail("InvalidLength")
                 ELSE Ok([value  |-> SubSeq(data, offset + 2, offset + totalLen),
                          offset |-> offset + totalLen])
        ELSE IF tt = MSCTP_TT_LARGE_VECTOR
        THEN IF msctp_get_modifier(header) # 0 THEN Fail("InvalidHeader")
             ELSE LET raw == _decode_raw_uleb128(Subarray(data, offset + 1))
                  IN  IF ~raw.ok THEN raw
                      ELSE LET totalObjectSize == 1 + raw.val[2] + raw.val[1]
                           IN  IF Len(data) < offset + totalObjectSize
                               THEN Fail("InvalidLength")
                               ELSE IF raw.val[1] > MSCTP_MAX_LARGE_VECTOR_SIZE
                               THEN Fail("SizeLimitExceeded")
                               ELSE Ok([value  |-> SubSeq(data, offset + 2 + raw.val[2],
                                                          offset + totalObjectSize),
                                        offset |-> offset + totalObjectSize])
        ELSE Fail("InvalidHeader")

(* subarray() clamps its end to the length of the buffer. *)
readVectorUnbounded(decoder) ==
    LET header == HeaderAt(decoder)
        tt     == msctp_get_tt(header)
        data   == decoder.data
        offset == decoder.offset
    IN  IF tt = MSCTP_TT_SMALL_VECTOR
        THEN LET totalLen == 1 + msctp_get_modifier(header)
                 end      == IF offset + totalLen <= Len(data) THEN offset + totalLen
                             ELSE Len(data)
             IN  Ok([value  |-> SubSeq(data, offset + 2, end),
                     offset |-> offset + totalLen])
        ELSE IF tt = MSCTP_TT_LARGE_VECTOR
        THEN IF msctp_get_modifier(header) # 0 THEN Fail("InvalidHeader")
             ELSE LET raw == _decode_raw_uleb128(Subarray(data, offset + 1))
                  IN  IF ~raw.ok THEN raw
                      ELSE IF raw.val[1] > MSCTP_MAX_LARGE_VECTOR_SIZE
                      THEN Fail("SizeLimitExceeded")
                      ELSE LET totalObjectSize == 1 + raw.val[2] + raw.val[1]
                           IN  IF Len(data) < offset + totalObjectSize
                               THEN Fail("InvalidLength")
                               ELSE Ok([value  |-> SubSeq(data, offset + 2 + raw.val[2],
                                                          offset + totalObjectSize),
                                        offset |-> offset + totalObjectSize])
        ELSE Fail("InvalidHeader")

readVector(decoder) ==
    LET header == HeaderAt(decoder)
        tt     == msctp_get_tt(header)
        data   == decoder.data
        offset == decoder.offset
    IN  IF tt = MSCTP_TT_SMALL_VECTOR
        THEN LET totalLen == 1 + msctp_get_modifier(header)
             IN  IF Len(data) < offset + totalLen THEN Fail("InvalidLength")
                 ELSE Ok([value  |-> SubSeq(data, offset + 2, offset + totalLen),
                          offset |-> offset + totalLen])
        ELSE IF tt = MSCTP_TT_LARGE_VECTOR
        THEN IF msctp_get_modifier(header) # 0 THEN Fail("InvalidHeader")
             ELSE LET raw == _decode_raw_uleb128(Subarray(data, offset + 1))
                  IN  IF ~raw.ok THEN raw
                      ELSE IF raw.val[1] > MSCTP_MAX_LARGE_VECTOR_SIZE
                      THEN Fail("SizeLimitExceeded")
                      ELSE LET totalObjectSize == 1 + raw.val[2] + raw.val[1]
                           IN  IF Len(data) < offset + totalObjectSize
                               THEN Fail("InvalidLength")
                               ELSE Ok([value  |-> SubSeq(data, offset + 2 + raw.val[2],
                                                          offset + totalObjectSize),
                                        offset |-> offset + totalObjectSize])
        ELSE Fail("InvalidHeader")

At(decoder, offset) == [decoder EXCEPT !.offset = offset]

(***************************************************************************)
(* transactionEncoder.                                                     *)
(***************************************************************************)
IsDigit(c) == \E i \in 1..10 : LowerHex[i] = c

RECURSIVE DigitsValue(_, _)
DigitsValue(str, base) ==
    IF str = <<>> THEN 0
    ELSE base * DigitsValue(SubSeq(str, 1, Len(str) - 1), base) + HexDigitValue(str[Len(str)])

(* BigInt(value): a number converts to itself; a string is parsed as a     *)
(* decimal literal with an optional minus sign or as a 0x literal, the     *)
(* empty string being 0; a Uint8Array converts through its string form.    *)
checkBigInt(value) ==
    IF "num" \in DOMAIN value THEN Ok(value.num)
    ELSE IF "bytes" \in DOMAIN value
    THEN IF value.bytes = <<>> THEN Ok(0)
         ELSE IF Len(value.bytes) = 1 THEN Ok(value.bytes[1])
         ELSE Fail("CannotConvertToBigInt")
    ELSE LET str == value.str
         IN  IF str = <<>> THEN Ok(0)
             ELSE IF \A i \in 1..Len(str) : IsDigit(str[i]) THEN Ok(DigitsValue(str, 10))
             ELSE IF str[1] = "-" /\ Len(str) > 1 /\ \A i \in 2..Len(str) : IsDigit(str[i])
             THEN Ok(-DigitsValue(Tail(str), 10))
             ELSE IF StartsWith(str, <<"0","x">>) /\ Len(str) > 2
                     /\ \A i \in 3..Len(str) : IsHexChar(str[i])
             THEN Ok(DigitsValue(SubSeq(str, 3, Len(str)), 16))
             ELSE Fail("CannotConvertToBigInt")

(* parseInt(pair, 16) stored into a Uint8Array: the longest hex prefix of  *)
(* the pair, NaN (stored as 0) when there is none.                         *)
ParseIntPair(a, b) ==
    IF ~IsHexChar(a) THEN 0
    ELSE IF ~IsHexChar(b) \/ (a = "0" /\ (b = "x" \/ b = "X")) THEN HexDigitValue(a)
    ELSE 16 * HexDigitValue(a) + HexDigitValue(b)

encoder_hexToBytes(hex) ==
    IF Len(hex) % 2 # 0 THEN Fail("OddHexLength")
    ELSE Ok([i \in 1..(Len(hex) \div 2) |-> ParseIntPair(hex[2 * i - 1], hex[2 * i])])

EncodeInstruction(chunks, instruction) ==
    LET key == instruction.key
    IN  IF key = "vector"
        THEN IF IsStr(instruction)
             THEN LET bytes == encoder_hexToBytes(instruction.str)
                  IN  IF bytes.ok THEN Ok(addVector(chunks, bytes.val)) ELSE bytes
             ELSE IF IsBytes(instruction) THEN Ok(addVector(chunks, instruction.bytes))
             ELSE Fail("InvalidVectorType")
        ELSE IF key \in {"uleb", "uleb128"}
        THEN LET value == checkBigInt(instruction)
             IN  IF value.ok THEN Ok(addUleb128(chunks, value.val)) ELSE value
        ELSE IF key \in {"sleb", "sleb128"}
        THEN LET value == checkBigInt(instruction)
             IN  IF value.ok THEN Ok(addSleb128(chunks, value.val)) ELSE value
        ELSE IF key = "INLINE"
        THEN IF IsBytes(instruction) THEN Ok(Append(chunks, instruction.bytes))
             ELSE Fail("InvalidInlineType")
        ELSE Fail("UnsupportedInstruction")

RECURSIVE EncodeInstructionsInto(_, _)
EncodeInstructionsInto(chunks, instructions) ==
    IF instructions = <<>> THEN Ok(chunks)
    ELSE With([next \in {EncodeInstruction(chunks, Head(instructions))} |->
         IF next.ok THEN EncodeInstructionsInto(next.val, Tail(instructions)) ELSE next])

encodeInstructions(instructions) ==
    With([chunks \in {EncodeInstructionsInto(<<>>, instructions)} |->
        IF chunks.ok THEN Ok(build(chunks.val)) ELSE chunks])

RECURSIVE EncodeInvocations(_, _)
EncodeInvocations(chunks, invocations) ==
    IF invocations = <<>> THEN Ok(chunks)
    ELSE With([target \in {checkBigInt(Head(invocations).targetAddress)} |->
         IF ~target.ok THEN target
         ELSE With([bytes \in {encodeInstructions(Head(invocations).instructions)} |->
         IF ~bytes.ok THEN bytes
         ELSE EncodeInvocations(addVector(addUleb128(chunks, target.val), bytes.val),
                                Tail(invocations))])])

encodePreSignaturePayload(chunks, resolvedManifest) ==
    LET version   == addUleb128(chunks, 1)
        sequence  == addUleb128(version, resolvedManifest.sequence)
        addresses == addVector(sequence, Flatten(resolvedManifest.addresses))
        gasLimit  == addUleb128(addresses, resolvedManifest.gasLimit)
        gasPrice  == addUleb128(gasLimit, resolvedManifest.gasPrice)
    IN  EncodeInvocations(gasPrice, resolvedManifest.invocations)

RECURSIVE appendSignaturesFalconFirst(_, _)
appendSignaturesFalconFirst(chunks, signatures) ==
    IF signatures = <<>> THEN chunks
    ELSE appendSignaturesFalconFirst(
            addVector(addVector(chunks, Head(signatures).falcon512),
                      Head(signatures).ed25519),
            Tail(signatures))

RECURSIVE appendSignatures(_, _)
appendSignatures(chunks, signatures) ==
    IF signatures = <<>> THEN chunks
    ELSE appendSignatures(addVector(addVector(chunks, Head(signatures).ed25519),
                                    Head(signatures).falcon512),
                          Tail(signatures))

(***************************************************************************)
(* txLink.                                                                 *)
(***************************************************************************)
DOMAIN_TX_LINK_V1 ==
    <<84, 88, 45, 76, 73, 78, 75, 45, 86, 49>> \o [i \in 1..22 |-> 0]

(* A digest is a term over the hashed bytes; every digest is 32 bytes long. *)
IsDigest(x) == "blake3" \in DOMAIN x

IsUint8Array32(x) == IsDigest(x) \/ ("bytes" \in DOMAIN x /\ Len(x.bytes) = AddrLen)

computeTxLinkHash(oldHash, newHash) ==
    IF ~IsUint8Array32(oldHash) THEN Fail("OldHashLength")
    ELSE IF ~IsUint8Array32(newHash) THEN Fail("NewHashLength")
    ELSE Ok(Blake3Then(DOMAIN_TX_LINK_V1, <<oldHash, newHash>>))

toHexString(bytes) == IF IsDigest(bytes) THEN [hex |-> bytes] ELSE [hex |-> bytesToHex(bytes.bytes)]

isAllZeroLooksAtFirstByte(arr) == arr = <<>> \/ arr[1] = 0

isAllZero(arr) == \A i \in 1..Len(arr) : arr[i] = 0

(***************************************************************************)
(* The signature schemes behind signWith and verifyWith.  signLog is the   *)
(* record of the sign calls made so far; a signature names its entry, and  *)
(* it verifies for exactly the message and the key pair of that entry.     *)
(***************************************************************************)
sk_bytes(alg) == 4

pk_bytes(alg) == IF alg = "ed25519" THEN 4 ELSE 64

signature_bytes(alg) == IF alg = "ed25519" THEN 64 ELSE 70

PublicOf(alg, sk) ==
    IF alg = "ed25519" THEN [i \in 1..4 |-> sk[i] - 100]
    ELSE [i \in 1..64 |-> sk[1] - 200]

SignatureOf(alg, n) ==
    [i \in 1..signature_bytes(alg) |->
        IF i = 1 THEN (IF alg = "ed25519" THEN 1 ELSE 2)
        ELSE IF i = 2 THEN n
        ELSE 0]

(* Ed25519 is deterministic, Falcon-512 draws fresh randomness per call. *)
signWith(log, alg, sk, message) ==
    LET entry == [alg |-> alg, sk |-> sk, message |-> message]
        seen  == {n \in 1..Len(log) : log[n] = entry}
    IN  IF sk_bytes(alg) # Len(sk) THEN Fail("InvalidSecretKey")
        ELSE IF alg = "ed25519" /\ seen # {}
        THEN Ok([signature |-> SignatureOf(alg, CHOOSE n \in seen : TRUE), log |-> log])
        ELSE Ok([signature |-> SignatureOf(alg, Len(log) + 1), log |-> Append(log, entry)])

signMessage(log, handler, message) ==
    LET edSig == signWith(log, "ed25519", handler.keyset.ed25519.sk, message)
    IN  IF ~edSig.ok THEN edSig
        ELSE LET falSig == signWith(edSig.val.log, "falcon512",
                                    handler.keyset.falcon512.sk, message)
             IN  IF ~falSig.ok THEN falSig
                 ELSE Ok([pair |-> [ed25519   |-> edSig.val.signature,
                                    falcon512 |-> falSig.val.signature],
                          log  |-> falSig.val.log])

verifyWith(log, alg, pk, signature, message) ==
    IF pk_bytes(alg) # Len(pk) THEN Fail("InvalidPublicKey")
    ELSE Ok(/\ Len(signature) = signature_bytes(alg)
            /\ signature[2] \in 1..Len(log)
            /\ signature = SignatureOf(alg, signature[2])
            /\ log[signature[2]].alg = alg
            /\ log[signature[2]].message = message
            /\ PublicOf(alg, log[signature[2]].sk) = pk)

verifyEd25519(log, message, signature, publicKey) ==
    verifyWith(log, "ed25519", publicKey, signature, message)

verifyFalcon512(log, message, signature, publicKey) ==
    verifyWith(log, "falcon512", publicKey, signature, message)

(***************************************************************************)
(* transactionDecoder.                                                     *)
(***************************************************************************)
NoManifest == [absent |-> TRUE]

(* Values of the model are below 2^31, hence safe integers. *)
lebToJson(value) == value

extractInstructionLayout(manifest) ==
    IF "invocations" \notin DOMAIN manifest THEN <<>>
    ELSE [n \in 1..Len(manifest.invocations) |-> manifest.invocations[n].instructions]

HasLayout(manifest) == "invocations" \in DOMAIN manifest

(* The keys of the model are written in the encoder's spelling. *)
normaliseInstructionKey(layoutEntry) ==
    IF "key" \notin DOMAIN layoutEntry THEN "null"
    ELSE CASE layoutEntry.key = "INLINE" -> "INLINE"
           [] layoutEntry.key \in {"uleb", "uleb128"} -> "ULEB"
           [] layoutEntry.key \in {"sleb", "sleb128"} -> "SLEB"
           [] layoutEntry.key = "vector" -> "VECTOR"
           [] OTHER -> "null"

tryDecodePubset(decoder) ==
    With([firstMarker \in {readUleb128(decoder)} |->
        IF ~firstMarker.ok THEN firstMarker
        ELSE With([edPk \in {readVector(At(decoder, firstMarker.val.offset))} |->
        IF ~edPk.ok THEN edPk
        ELSE With([secondMarker \in {readUleb128(At(decoder, edPk.val.offset))} |->
        IF ~secondMarker.ok THEN secondMarker
        ELSE With([falconPk \in {readVector(At(decoder, secondMarker.val.offset))} |->
        IF ~falconPk.ok THEN falconPk
        ELSE IF firstMarker.val.value # 0 \/ secondMarker.val.value # 1
        THEN Fail("UnexpectedPubsetMarkers")
        ELSE Ok([raw    |-> SubSeq(decoder.data, decoder.offset + 1, falconPk.val.offset),
                 keys   |-> [ed25519   |-> [sk |-> <<>>, pk |-> edPk.val.value],
                             falcon512 |-> [sk |-> <<>>, pk |-> falconPk.val.value]],
                 offset |-> falconPk.val.offset])])])])])

decodeInline(decoder, layoutEntry) ==
    LET isPubset == IsStr(layoutEntry) /\ PubsetMatch(layoutEntry.str)
        inline   == [value  |-> [key |-> "INLINE",
                                 bytes |-> Subarray(decoder.data, decoder.offset),
                                 info |-> [kind |-> "inline"]],
                     offset |-> Len(decoder.data)]
    IN  IF ~isPubset THEN inline
        ELSE With([decoded \in {tryDecodePubset(decoder)} |->
        IF ~decoded.ok THEN inline
        ELSE [value  |-> [key |-> "INLINE", bytes |-> decoded.val.raw,
                          info |-> [kind   |-> "pubset",
                                    signer |-> PubsetKey(layoutEntry.str),
                                    keyset |-> << <<<<>>, decoded.val.keys.ed25519.pk>>,
                                                  <<<<>>, decoded.val.keys.falcon512.pk>> >>]],
              offset |-> decoded.val.offset]])

ReadInstruction(decoder, layoutEntry) ==
    LET key  == normaliseInstructionKey(layoutEntry)
        type == peekType(decoder)
        Uleb == LET r == readUleb128(decoder)
                IN  IF ~r.ok THEN r
                    ELSE Ok([value  |-> [key |-> "uleb", num |-> lebToJson(r.val.value)],
                             offset |-> r.val.offset])
        Sleb == LET r == readSleb128(decoder)
                IN  IF ~r.ok THEN r
                    ELSE Ok([value  |-> [key |-> "sleb", num |-> lebToJson(r.val.value)],
                             offset |-> r.val.offset])
        Vec  == LET r == readVector(decoder)
                IN  IF ~r.ok THEN r
                    ELSE Ok([value  |-> [key |-> "vector", bytes |-> r.val.value],
                             offset |-> r.val.offset])
    IN  IF key = "INLINE" THEN Ok(decodeInline(decoder, layoutEntry))
        ELSE IF key = "ULEB" THEN Uleb
        ELSE IF key = "SLEB" THEN Sleb
        ELSE IF key = "VECTOR" THEN Vec
        ELSE IF type = MSCTP_TT_ULEB128 THEN Uleb
        ELSE IF type = MSCTP_TT_SLEB128 THEN Sleb
        ELSE Vec

RECURSIVE DecodeInstructionsFrom(_, _, _, _)
DecodeInstructionsFrom(decoder, layoutEntries, index, instructions) ==
    IF ~hasNext(decoder) THEN Ok(instructions)
    ELSE LET layoutEntry == IF index < Len(layoutEntries) THEN layoutEntries[index + 1]
                            ELSE [undefined |-> TRUE]
         IN  With([r \in {ReadInstruction(decoder, layoutEntry)} |->
             IF ~r.ok THEN r
             ELSE DecodeInstructionsFrom(At(decoder, r.val.offset), layoutEntries, index + 1,
                                         Append(instructions, r.val.value))])

decodeInstructions(vectorBytes, layoutEntries) ==
    DecodeInstructionsFrom(MsctpDecoder(vectorBytes), layoutEntries, 0, <<>>)

VmMagic == <<76, 69, 65, 66>>

VmHeaderLength == 13

RECURSIVE Uint64Le(_)
Uint64Le(bytes) == IF bytes = <<>> THEN 0 ELSE Head(bytes) + 256 * Uint64Le(Tail(bytes))

StripVmHeaderLengthUnchecked(workingBytes) ==
    IF Len(workingBytes) < VmHeaderLength THEN Fail("VmHeaderTooShort")
    ELSE IF SubSeq(workingBytes, 1, 4) # VmMagic THEN Fail("VmMagic")
    ELSE IF workingBytes[5] # 1 THEN Fail("VmVersion")
    ELSE Ok([vmHeader |-> [magic |-> "LEAB", version |-> 1,
                           length |-> Len(workingBytes) - VmHeaderLength],
             bytes    |-> Subarray(workingBytes, VmHeaderLength)])

(* The declared length is read only when its upper bytes are zero; a       *)
(* larger one cannot equal the number of remaining bytes.                  *)
StripVmHeader(workingBytes) ==
    IF Len(workingBytes) < VmHeaderLength THEN Fail("VmHeaderTooShort")
    ELSE IF SubSeq(workingBytes, 1, 4) # VmMagic THEN Fail("VmMagic")
    ELSE IF workingBytes[5] # 1 THEN Fail("VmVersion")
    ELSE LET lengthBytes == SubSeq(workingBytes, 6, VmHeaderLength)
             remaining   == Len(workingBytes) - VmHeaderLength
         IN  IF (\E i \in 4..8 : lengthBytes[i] # 0)
                \/ Uint64Le(SubSeq(lengthBytes, 1, 3)) # remaining
             THEN Fail("VmLength")
             ELSE Ok([vmHeader |-> [magic |-> "LEAB", version |-> 1, length |-> remaining],
                      bytes    |-> Subarray(workingBytes, VmHeaderLength)])

RECURSIVE DecodeInvocations(_, _, _, _)
DecodeInvocations(decoder, manifest, invocationIndex, invocations) ==
    IF ~hasNext(decoder) \/ peekType(decoder) # MSCTP_TT_ULEB128
    THEN Ok([invocations |-> invocations, offset |-> decoder.offset])
    ELSE With([targetIndexBig \in {readUleb128(decoder)} |->
         IF ~targetIndexBig.ok THEN targetIndexBig
         ELSE With([instructionsVector \in {readVector(At(decoder, targetIndexBig.val.offset))} |->
         IF ~instructionsVector.ok THEN instructionsVector
         ELSE LET layouts       == extractInstructionLayout(manifest)
                  layoutEntries == IF HasLayout(manifest) /\ invocationIndex < Len(layouts)
                                   THEN layouts[invocationIndex + 1] ELSE <<>>
         IN  With([instructions \in {decodeInstructions(instructionsVector.val.value,
                                                        layoutEntries)} |->
         IF ~instructions.ok THEN instructions
         ELSE DecodeInvocations(
                At(decoder, instructionsVector.val.offset), manifest, invocationIndex + 1,
                Append(invocations,
                       [targetAddress |-> [num |-> targetIndexBig.val.value],
                        instructions  |-> instructions.val]))])])])

RECURSIVE DecodeSignaturesUnchecked(_, _)
DecodeSignaturesUnchecked(decoder, signatures) ==
    IF ~hasNext(decoder) THEN Ok(signatures)
    ELSE IF peekType(decoder) \notin {MSCTP_TT_SMALL_VECTOR, MSCTP_TT_LARGE_VECTOR}
    THEN Fail("UnexpectedTypeInSignatures")
    ELSE With([ed25519 \in {readVector(decoder)} |->
         IF ~ed25519.ok THEN ed25519
         ELSE With([falcon512 \in {readVector(At(decoder, ed25519.val.offset))} |->
         IF ~falcon512.ok THEN falcon512
         ELSE DecodeSignaturesUnchecked(At(decoder, falcon512.val.offset),
                               Append(signatures, [ed25519   |-> ed25519.val.value,
                                                   falcon512 |-> falcon512.val.value]))])])

RECURSIVE DecodeSignatures(_, _)
DecodeSignatures(decoder, signatures) ==
    IF ~hasNext(decoder) THEN Ok(signatures)
    ELSE IF peekType(decoder) \notin {MSCTP_TT_SMALL_VECTOR, MSCTP_TT_LARGE_VECTOR}
    THEN Fail("UnexpectedTypeInSignatures")
    ELSE With([ed25519 \in {readVector(decoder)} |->
         IF ~ed25519.ok THEN ed25519
         ELSE IF ~hasNext(At(decoder, ed25519.val.offset)) THEN Fail("UnpairedSignature")
         ELSE With([falcon512 \in {readVector(At(decoder, ed25519.val.offset))} |->
         IF ~falcon512.ok THEN falcon512
         ELSE DecodeSignatures(At(decoder, falcon512.val.offset),
                               Append(signatures, [ed25519   |-> ed25519.val.value,
                                                   falcon512 |-> falcon512.val.value]))])])

DecodeBody(workingBytes, vmHeader, manifest) ==
    IF Len(workingBytes) < 32 THEN Fail("TooShortForPod")
    ELSE
    LET pod         == SubSeq(workingBytes, 1, 32)
        sctpPayload == Subarray(workingBytes, 32)
        decoder     == MsctpDecoder(sctpPayload)
    IN  With([version \in {readUleb128(decoder)} |->
        IF ~version.ok THEN version
    ELSE With([sequence \in {readUleb128(At(decoder, version.val.offset))} |->
        IF ~sequence.ok THEN sequence
    ELSE With([addressBytes \in {readVector(At(decoder, sequence.val.offset))} |->
        IF ~addressBytes.ok THEN addressBytes
    ELSE IF Len(addressBytes.val.value) % 32 # 0 THEN Fail("AddressVectorLength")
    ELSE LET addresses == [n \in 1..(Len(addressBytes.val.value) \div 32) |->
                              SubSeq(addressBytes.val.value, 32 * (n - 1) + 1, 32 * n)]
    IN  With([gasLimit \in {readUleb128(At(decoder, addressBytes.val.offset))} |->
        IF ~gasLimit.ok THEN gasLimit
    ELSE With([gasPrice \in {readUleb128(At(decoder, gasLimit.val.offset))} |->
        IF ~gasPrice.ok THEN gasPrice
    ELSE With([invocations \in {DecodeInvocations(At(decoder, gasPrice.val.offset),
                                                  manifest, 0, <<>>)} |->
        IF ~invocations.ok THEN invocations
    ELSE LET signatureStartOffset == invocations.val.offset
    IN  With([signatures \in {DecodeSignatures(At(decoder, signatureStartOffset), <<>>)} |->
        IF ~signatures.ok THEN signatures
    ELSE Ok([pod         |-> pod,
             version     |-> lebToJson(version.val.value),
             sequence    |-> lebToJson(sequence.val.value),
             gasLimit    |-> lebToJson(gasLimit.val.value),
             gasPrice    |-> lebToJson(gasPrice.val.value),
             addresses   |-> addresses,
             invocations |-> invocations.val.invocations,
             signatures  |-> signatures.val,
             vmHeader    |-> vmHeader,
             hashes      |-> [preSignature     |-> SubSeq(sctpPayload, 1, signatureStartOffset),
                              signatureSection |-> Subarray(sctpPayload, signatureStartOffset)]])
        ])])])])])])])

(* options is [stripVmHeader, manifest]; manifest is NoManifest when absent *)
(* and vmHeader is <<>> when no header was stripped.                        *)
decodeTransaction(txBytes, options) ==
    IF options.stripVmHeader
    THEN LET stripped == StripVmHeader(txBytes)
         IN  IF ~stripped.ok THEN stripped
             ELSE DecodeBody(stripped.val.bytes, stripped.val.vmHeader, options.manifest)
    ELSE DecodeBody(txBytes, <<>>, options.manifest)

(* decoded.hashes.base() *)
HashesBase(decoded) == Blake3(decoded.pod \o decoded.hashes.preSignature)

(***************************************************************************)
(* index.mjs: verifyTransactionWithKeyset, and the round trip of test.mjs. *)
(***************************************************************************)
(* keyset is a public key record {ed25519: {pk}, falcon512: {pk}} or a key *)
(* file whose keyset field is the array [[edSk, edPk], [falSk, falPk]].    *)
normalizeKeyset(keyset) ==
    IF "ed25519" \in DOMAIN keyset /\ "falcon512" \in DOMAIN keyset
    THEN Ok([ed25519 |-> keyset.ed25519.pk, falcon512 |-> keyset.falcon512.pk])
    ELSE IF "keyset" \in DOMAIN keyset
    THEN Ok([ed25519 |-> keyset.keyset[1][2], falcon512 |-> keyset.keyset[2][2]])
    ELSE Fail("UnsupportedKeyset")

verifyTransactionWithKeyset(log, input, keyset, options) ==
    With([decoded \in {decodeTransaction(input, [stripVmHeader |-> options.stripVmHeader,
                                                  manifest      |-> NoManifest])} |->
        IF ~decoded.ok THEN decoded
        ELSE IF Len(decoded.val.signatures) # 1 THEN Fail("NotOneSignaturePair")
        ELSE LET message == HashesBase(decoded.val)
                 keys    == normalizeKeyset(keyset)
             IN  IF ~keys.ok THEN keys
                 ELSE LET signaturePair == decoded.val.signatures[1]
                      IN  With([edOk \in {verifyEd25519(log, message, signaturePair.ed25519,
                                                        keys.val.ed25519)} |->
                          With([falOk \in {verifyFalcon512(log, message,
                                                           signaturePair.falcon512,
                                                           keys.val.falcon512)} |->
                          IF ~edOk.ok THEN edOk
                          ELSE IF ~falOk.ok THEN falOk
                          ELSE Ok([ok        |-> edOk.val /\ falOk.val,
                                   ed25519   |-> edOk.val,
                                   falcon512 |-> falOk.val])])])])

rebuildTransaction(decoded) ==
    With([payload \in {encodePreSignaturePayload(<<>>,
                        [sequence    |-> decoded.sequence,
                         gasLimit    |-> decoded.gasLimit,
                         gasPrice    |-> decoded.gasPrice,
                         addresses   |-> decoded.addresses,
                         invocations |-> decoded.invocations])} |->
        IF ~payload.ok THEN payload
        ELSE Ok(decoded.pod \o build(appendSignatures(payload.val, decoded.signatures)))])

(***************************************************************************)
(* The inputs of the model: key files, aliases, address literals in their  *)
(* several spellings, and the $addr(...) references built from them.       *)
(***************************************************************************)
KeyFile(k) ==
    [keyset     |-> << << [i \in 1..4 |-> 100 + k], [i \in 1..4 |-> k] >>,
                       << [i \in 1..4 |-> 200 + k], [i \in 1..64 |-> k] >> >>,
     address    |-> <<>>,
     addressHex |-> <<>>]

Handlers == [k \in 1..3 |-> loadKeysetFromObject(KeyFile(k)).val]

HandlerOf(k) == Handlers[k]

(* Signer names and their key files: s, t and u hold three different keys, *)
(* v holds the keys of s, and the key file of w declares a foreign address. *)
KeyFileOf(name) ==
    CASE name = <<"s">> -> KeyFile(1)
      [] name = <<"t">> -> KeyFile(2)
      [] name = <<"u">> -> KeyFile(3)
      [] name = <<"v">> -> KeyFile(1)
      [] name = <<"w">> -> [KeyFile(2) EXCEPT !.addressHex = bytesToHex(HandlerOf(1).addressUint8)]

AddressX == [i \in 1..AddrLen |-> IF i = 1 THEN 48 ELSE IF i = 2 THEN 171 ELSE 0]

AddressY == [i \in 1..AddrLen |-> IF i = 1 THEN 16 ELSE IF i = AddrLen THEN 205 ELSE 0]

ToUpperCase(str) ==
    [i \in 1..Len(str) |->
        IF \E j \in 11..16 : LowerHex[j] = str[i]
        THEN UpperHex[CHOOSE j \in 11..16 : LowerHex[j] = str[i]]
        ELSE str[i]]

AddrRef(key) == AddrPrefix \o key \o <<")">>

ConstRef(name) == ConstPrefix \o name \o <<")">>

PubsetRef(name) == PubsetPrefix \o name \o <<")">>

ConstantsOfModel ==
    << <<<<"c">>, <<"0","x">> \o ToUpperCase(bytesToHex(AddressY))>>,
       <<<<"d">>, ConstRef(<<"e">>)>>,
       <<<<"e">>, bytesToHex(AddressY)>> >>

RefUniverse ==
    { AddrRef(<<"s">>),
      AddrRef(<<"c">>),
      AddrRef(bytesToHex(AddressX)),
      AddrRef(Bech32mEncode(ADDRESS_HRP, AddressX)),
      AddrRef(bytesToHex(HandlerOf(1).addressUint8)),
      AddrRef(<<"a","b">>) }

Invocation(targetAddress, instructions) ==
    [targetAddress |-> targetAddress, instructions |-> instructions]

ResolveInvocations ==
    {Invocation(ref, <<>>) : ref \in RefUniverse}
    \cup {Invocation(AddrRef(ConstRef(<<"d">>)),
                     << [key |-> "uleb", str |-> AddrRef(<<"t">>)],
                        [key |-> "INLINE", str |-> PubsetRef(<<"s">>)] >>)}

PipelineInvocations ==
    { Invocation(AddrRef(<<"s">>),
                 << [key |-> "uleb", num |-> 1],
                    [key |-> "vector", str |-> <<"a","a","b","b">>],
                    [key |-> "sleb", num |-> -3] >>),
      Invocation(AddrRef(<<"c">>),
                 << [key |-> "INLINE", str |-> PubsetRef(<<"s">>)],
                    [key |-> "uleb128", str |-> AddrRef(<<"s">>)],
                    [key |-> "INLINE", bytes |-> <<1, 7, 0, 64>>] >>),
      Invocation(AddrRef(<<"a","b">>), <<>>),
      Invocation(AddrRef(bytesToHex(HandlerOf(1).addressUint8)),
                 << [key |-> "vector", bytes |-> [i \in 1..70 |-> i]] >>),
      Invocation(AddrRef(bytesToHex(AddressX)),
                 << [key |-> "uint64", str |-> <<"5","0","0">>] >>) }

SignerSetups ==
    { [names |-> <<>>, feePayer |-> <<>>],
      [names |-> << <<"s">> >>, feePayer |-> <<"s">>],
      [names |-> << <<"s">> >>, feePayer |-> <<>>],
      [names |-> << <<"s">> >>, feePayer |-> <<"z">>],
      [names |-> << <<"s">>, <<"t">>, <<"u">> >>, feePayer |-> <<"t">>],
      [names |-> << <<"s">>, <<"v">> >>, feePayer |-> <<"s">>],
      [names |-> << <<"w">> >>, feePayer |-> <<"w">>] }

SignerKeysOf(names) == [i \in 1..Len(names) |-> <<names[i], KeyFileOf(names[i])>>]

LoadableSetups == {setup \in SignerSetups : <<"w">> \notin Range(setup.names)}

SignerNames == {<<"s">>, <<"t">>, <<"u">>, <<"v">>}

LoadedHandlers == [name \in SignerNames |-> loadKeysetFromObject(KeyFileOf(name)).val]

SignersOf(names) == [i \in 1..Len(names) |-> <<names[i], LoadedHandlers[names[i]]>>]

SeqsUpTo(S, n) == UNION {[1..m -> S] : m \in 0..n}

ManifestOf(feePayer, signers, invocations) ==
    [pod         |-> <<>>,
     feePayer    |-> feePayer,
     sequence    |-> 1,
     gasLimit    |-> 100000,
     gasPrice    |-> 10,
     constants   |-> ConstantsOfModel,
     signers     |-> signers,
     invocations |-> invocations]

(* The Quick Start of MODULE.md: one signer named sender who pays the fee,  *)
(* one invocation of a literal Bech32m address with the instructions       *)
(* {uleb: 1} and {uint64: '500'}; and the same transfer with the amount    *)
(* written as {uleb: 500}.                                                 *)
QuickStartSigner == <<"s","e","n","d","e","r">>

QuickStartSignerKeys == << <<QuickStartSigner, KeyFile(1)>> >>

QuickStartTransfer(amount) ==
    [pod         |-> <<>>,
     feePayer    |-> QuickStartSigner,
     sequence    |-> 1,
     gasLimit    |-> 100000,
     gasPrice    |-> 10,
     constants   |-> <<>>,
     signers     |-> <<>>,
     invocations |-> << Invocation(AddrRef(Bech32mEncode(ADDRESS_HRP, AddressX)),
                                   << [key |-> "uleb", num |-> 1], amount >>) >>]

QuickStartManifest == QuickStartTransfer([key |-> "uint64", str |-> <<"5","0","0">>])

QuickStartWithUleb == QuickStartTransfer([key |-> "uleb", num |-> 500])

(* createTransaction(m, {}) as one call: with no signer keys nothing is    *)
(* loaded and nothing is signed (index.mjs 95-179 without the two loops),  *)
(* and without options the chain step changes nothing in tx.               *)
createTransactionUnsigned(m) ==
    With([resolved \in {resolveManifest([m EXCEPT !.signers = <<>>])} |->
        IF ~resolved.ok THEN resolved
        ELSE With([chunks \in {encodePreSignaturePayload(<<>>, resolved.val)} |->
        IF ~chunks.ok THEN chunks
        ELSE Ok([tx |-> resolved.val.pod \o build(appendSignatures(chunks.val, <<>>))])])])

VectorOf(n) == [i \in 1..n |-> i % 251]

(* A manifest whose pod ends in the start of a transaction of its own: a   *)
(* version, a sequence, an empty address vector, a gas limit and a gas     *)
(* price, one empty signature vector and the header of a large vector as   *)
(* long as the payload that follows the pod.                               *)
PodTail(payloadLength) ==
    build(addVector(
            addUleb128(addUleb128(addVector(addUleb128(addUleb128(<<>>, 1), 1), <<>>), 1),
                       IF payloadLength < 128 THEN 128 ELSE 1),
            <<>>))
    \o <<msctp_make_header(0, MSCTP_TT_LARGE_VECTOR)>> \o _encode_raw_uleb128(payloadLength)

VectorTransfer ==
    ManifestOf(<<>>, <<>>, << Invocation(AddrRef(bytesToHex(AddressX)),
                                         << [key |-> "vector", bytes |-> VectorOf(24)] >>) >>)

SwallowingPod ==
    LET payloadLength == Len(createTransactionUnsigned(VectorTransfer).val.tx) - AddrLen
        tail          == PodTail(payloadLength)
    IN  [i \in 1..(AddrLen - Len(tail)) |-> 17] \o tail

SwallowingManifest == [VectorTransfer EXCEPT !.pod = bytesToHex(SwallowingPod)]

PrevTxHashOptions ==
    { [absent |-> TRUE],
      [undefined |-> TRUE],
      [bytes |-> [i \in 1..AddrLen |-> 0]],
      [bytes |-> [i \in 1..AddrLen |-> IF i = 3 THEN 9 ELSE 0]],
      [bytes |-> [i \in 1..(AddrLen - 1) |-> 9]],
      [str |-> bytesToHex([i \in 1..AddrLen |-> 9])] }

PublicKeysOf(k) == [ed25519   |-> [pk |-> HandlerOf(k).keyset.ed25519.pk],
                    falcon512 |-> [pk |-> HandlerOf(k).keyset.falcon512.pk]]

VerifyKeysets == {PublicKeysOf(1), PublicKeysOf(2), KeyFile(1)}

IndexPermutations(n) == {p \in [1..n -> 1..n] : \A i, j \in 1..n : p[i] = p[j] => i = j}

(* the exchanges of two neighbours; they generate every reordering *)
NeighbourSwaps(n) ==
    {[i \in 1..n |-> IF i = k THEN k + 1 ELSE IF i = k + 1 THEN k ELSE i] : k \in 1..(n - 1)}

Identity(n) == [i \in 1..n |-> i]

Permute(seq, p) == [i \in 1..Len(seq) |-> seq[p[i]]]

(***************************************************************************)
(* State.  One createTransaction call runs from its arguments (manifest,   *)
(* signerKeys, options) through its await points; its locals carry the     *)
(* names of index.mjs.  Afterwards the returned bytes are decoded, rebuilt *)
(* and verified.  The resolver is also called on its own, with handlers as *)
(* signers, and called again on a reordered authoring manifest.            *)
(***************************************************************************)
VARIABLES pc, manifest, signerKeys, options, addressToHandlerMap, resolvedManifest,
          sctpEncoder, preSigPayloadBytes, txHash, messageToSign, linkId, signatures,
          signLog, result, decoded, rebuilt, verified, permuted,
          crafted, bulk, calls, built, decoder, read,
          cryptoHandler, loads, objects, runs

vars == <<pc, manifest, signerKeys, options, addressToHandlerMap, resolvedManifest,
          sctpEncoder, preSigPayloadBytes, txHash, messageToSign, linkId, signatures,
          signLog, result, decoded, rebuilt, verified, permuted,
          crafted, bulk, calls, built, decoder, read,
          cryptoHandler, loads, objects, runs>>

NotYet == [ok |-> FALSE, err |-> "pending"]

Null == [null |-> TRUE]

InitLocals ==
    /\ options = [absent |-> TRUE]
    /\ addressToHandlerMap = <<>>
    /\ resolvedManifest = NotYet
    /\ sctpEncoder = <<>>
    /\ preSigPayloadBytes = <<>>
    /\ txHash = NotYet
    /\ messageToSign = NotYet
    /\ linkId = Null
    /\ signatures = <<>>
    /\ signLog = <<>>
    /\ result = NotYet
    /\ decoded = [options |-> NotYet, out |-> NotYet]
    /\ rebuilt = NotYet
    /\ verified = [keyset |-> NotYet, out |-> NotYet]
    /\ permuted = [input |-> NotYet, out |-> NotYet]
    /\ bulk = NotYet

NoCrafted == crafted = NotYet

NoCodec ==
    /\ calls = <<>>
    /\ built = NotYet
    /\ decoder = NotYet
    /\ read = <<>>

NoHandler == cryptoHandler = NotYet /\ loads = <<>>

NoRuns == objects = <<>> /\ runs = <<>>

Init ==
    /\ pc = "start"
    /\ \/ \E setup \in SignerSetups, invocations \in SeqsUpTo(PipelineInvocations, MaxRefs) :
            /\ manifest = ManifestOf(setup.feePayer, <<>>, invocations)
            /\ signerKeys = SignerKeysOf(setup.names)
       \/ /\ manifest \in {QuickStartManifest, QuickStartWithUleb}
          /\ signerKeys = QuickStartSignerKeys
       \/ /\ manifest = SwallowingManifest
          /\ signerKeys = <<>>
    /\ InitLocals
    /\ NoCrafted
    /\ NoCodec
    /\ NoHandler
    /\ NoRuns

Throw(error) ==
    /\ pc' = "failed"
    /\ result' = error

(* index.mjs 95-96 *)
Begin ==
    /\ pc = "start"
    /\ manifest' = [manifest EXCEPT !.signers = <<>>]
    /\ addressToHandlerMap' = <<>>
    /\ pc' = "load"
    /\ UNCHANGED <<signerKeys, options, resolvedManifest, sctpEncoder, preSigPayloadBytes,
                   txHash, messageToSign, linkId, signatures, signLog, result, decoded,
                   rebuilt, verified, permuted,
                   crafted, bulk, calls, built, decoder, read,
                   cryptoHandler, loads, objects, runs>>

(* index.mjs 97-104: one iteration of the loop over signerKeys *)
LoadSigner ==
    /\ pc = "load"
    /\ Len(manifest.signers) < Len(signerKeys)
    /\ \E entry \in {signerKeys[Len(manifest.signers) + 1]} :
       \E loaded \in {loadKeysetFromObject(entry[2])} :
           IF ~loaded.ok
           THEN /\ Throw(loaded)
                /\ UNCHANGED <<manifest, addressToHandlerMap>>
           ELSE /\ addressToHandlerMap' =
                        MapSet(addressToHandlerMap, loaded.val.addressUint8, loaded.val)
                /\ manifest' = [manifest EXCEPT !.signers = MapSet(@, entry[1], loaded.val)]
                /\ UNCHANGED <<pc, result>>
    /\ UNCHANGED <<signerKeys, options, resolvedManifest, sctpEncoder, preSigPayloadBytes,
                   txHash, messageToSign, linkId, signatures, signLog, decoded, rebuilt,
                   verified, permuted,
                   crafted, bulk, calls, built, decoder, read,
                   cryptoHandler, loads, objects, runs>>

(* index.mjs 107 *)
Resolve ==
    /\ pc = "load"
    /\ Len(manifest.signers) = Len(signerKeys)
    /\ \E resolved \in {resolveManifest(manifest)} :
           IF ~resolved.ok
           THEN Throw(resolved) /\ UNCHANGED resolvedManifest
           ELSE resolvedManifest' = resolved /\ pc' = "encode" /\ UNCHANGED result
    /\ UNCHANGED <<manifest, signerKeys, options, addressToHandlerMap, sctpEncoder,
                   preSigPayloadBytes, txHash, messageToSign, linkId, signatures, signLog,
                   decoded, rebuilt, verified, permuted,
                   crafted, bulk, calls, built, decoder, read,
                   cryptoHandler, loads, objects, runs>>

(* index.mjs 111-117 *)
Encode ==
    /\ pc = "encode"
    /\ \E chunks \in {encodePreSignaturePayload(<<>>, resolvedManifest.val)} :
           IF ~chunks.ok
           THEN Throw(chunks) /\ UNCHANGED <<sctpEncoder, preSigPayloadBytes>>
           ELSE /\ sctpEncoder' = chunks.val
                /\ preSigPayloadBytes' = build(chunks.val)
                /\ pc' = "hash"
                /\ UNCHANGED result
    /\ UNCHANGED <<manifest, signerKeys, options, addressToHandlerMap, resolvedManifest,
                   txHash, messageToSign, linkId, signatures, signLog, decoded, rebuilt,
                   verified, permuted,
                   crafted, bulk, calls, built, decoder, read,
                   cryptoHandler, loads, objects, runs>>

(* index.mjs 121-127 *)
Hash ==
    /\ pc = "hash"
    /\ txHash' = Blake3(resolvedManifest.val.pod \o preSigPayloadBytes)
    /\ pc' = "chain"
    /\ UNCHANGED <<manifest, signerKeys, options, addressToHandlerMap, resolvedManifest,
                   sctpEncoder, preSigPayloadBytes, messageToSign, linkId, signatures,
                   signLog, result, decoded, rebuilt, verified, permuted,
                   crafted, bulk, calls, built, decoder, read,
                   cryptoHandler, loads, objects, runs>>

(* index.mjs 133-155; options is read here for the first time, so the      *)
(* caller's choice of it is drawn here.                                    *)
Chain ==
    /\ pc = "chain"
    /\ \E opts \in PrevTxHashOptions :
        /\ options' = opts
        /\ IF "absent" \in DOMAIN opts \/ "undefined" \in DOMAIN opts
           THEN /\ messageToSign' = txHash /\ linkId' = Null
                /\ pc' = "sign" /\ UNCHANGED result
           ELSE IF ~("bytes" \in DOMAIN opts /\ Len(opts.bytes) = 32)
           THEN Throw(Fail("PrevTxHashNot32Bytes")) /\ UNCHANGED <<messageToSign, linkId>>
           ELSE IF ~isAllZero(opts.bytes)
           THEN LET linkHash == computeTxLinkHash(opts, txHash)
                IN  /\ messageToSign' = linkHash.val
                    /\ linkId' = toHexString(linkHash.val)
                    /\ pc' = "sign" /\ UNCHANGED result
           ELSE /\ messageToSign' = txHash /\ linkId' = Null
                /\ pc' = "sign" /\ UNCHANGED result
    /\ UNCHANGED <<manifest, signerKeys, addressToHandlerMap, resolvedManifest, sctpEncoder,
                   preSigPayloadBytes, txHash, signatures, signLog, decoded, rebuilt,
                   verified, permuted,
                   crafted, bulk, calls, built, decoder, read,
                   cryptoHandler, loads, objects, runs>>

(* index.mjs 159 *)
signerCount == Len(manifest.signers)

(* index.mjs 160-168: one iteration of the signing loop *)
Sign ==
    /\ pc = "sign"
    /\ Len(signatures) < signerCount
    /\ LET i == Len(signatures)
           finalAddressList == resolvedManifest.val.addresses
       IN  IF i >= Len(finalAddressList)
           THEN Throw(Fail("NoSignerAddress")) /\ UNCHANGED <<signatures, signLog>>
           ELSE IF ~MapHas(addressToHandlerMap, finalAddressList[i + 1])
           THEN Throw(Fail("NoHandlerForAddress")) /\ UNCHANGED <<signatures, signLog>>
           ELSE LET handler == MapGet(addressToHandlerMap, finalAddressList[i + 1])
                    signed  == signMessage(signLog, handler, messageToSign)
                IN  IF ~signed.ok
                    THEN Throw(signed) /\ UNCHANGED <<signatures, signLog>>
                    ELSE /\ signatures' = Append(signatures, signed.val.pair)
                         /\ signLog' = signed.val.log
                         /\ UNCHANGED <<pc, result>>
    /\ UNCHANGED <<manifest, signerKeys, options, addressToHandlerMap, resolvedManifest,
                   sctpEncoder, preSigPayloadBytes, txHash, messageToSign, linkId, decoded,
                   rebuilt, verified, permuted,
                   crafted, bulk, calls, built, decoder, read,
                   cryptoHandler, loads, objects, runs>>

(* index.mjs 171-179 *)
Finish ==
    /\ pc = "sign"
    /\ Len(signatures) = signerCount
    /\ sctpEncoder' = appendSignatures(sctpEncoder, signatures)
    /\ result' = Ok([tx     |-> resolvedManifest.val.pod \o build(sctpEncoder'),
                     txId   |-> toHexString(txHash),
                     linkId |-> linkId])
    /\ pc' = "done"
    /\ UNCHANGED <<manifest, signerKeys, options, addressToHandlerMap, resolvedManifest,
                   preSigPayloadBytes, txHash, messageToSign, linkId, signatures, signLog,
                   decoded, rebuilt, verified, permuted,
                   crafted, bulk, calls, built, decoder, read,
                   cryptoHandler, loads, objects, runs>>

(* The lengths of an instruction vector around the largest vector MSCTP    *)
(* encodes: the vector's own encoding adds four bytes.                     *)
BulkLengths ==
    {MSCTP_MAX_LARGE_VECTOR_SIZE - 128, MSCTP_MAX_LARGE_VECTOR_SIZE - 4,
     MSCTP_MAX_LARGE_VECTOR_SIZE - 3, MSCTP_MAX_LARGE_VECTOR_SIZE + 1}

BulkManifest(m, n) ==
    [m EXCEPT !.invocations =
        << Invocation(AddrRef(bytesToHex(AddressX)),
                      << [key |-> "vector", bytes |-> VectorOf(n)] >>) >>]

(* What is kept of a returned transaction: its length, whether             *)
(* decodeTransaction reads it, and the number of instructions it reads in  *)
(* the invocation.                                                         *)
BulkOutcome(n, out) ==
    IF ~out.ok THEN [length |-> n, returned |-> FALSE, err |-> out.err]
    ELSE With([readBack \in {decodeTransaction(out.val.tx, [stripVmHeader |-> FALSE,
                                                       manifest      |-> NoManifest])} |->
        [length       |-> n,
         returned     |-> TRUE,
         txLength     |-> Len(out.val.tx),
         decodes      |-> readBack.ok,
         instructions |-> IF readBack.ok /\ Len(readBack.val.invocations) = 1
                          THEN Len(readBack.val.invocations[1].instructions) ELSE 0]])

(* createTransaction(m, {}) where m is the manifest without invocations    *)
(* given one invocation whose single instruction is a vector of n bytes.   *)
(* The manifest of this call and the returned bytes are not held in the    *)
(* state; bulk holds n and the outcome.                                    *)
CreateBulk ==
    /\ pc = "start"
    /\ signerKeys = <<>>
    /\ manifest.invocations = <<>>
    /\ \E n \in BulkLengths :
        bulk' = BulkOutcome(n, createTransactionUnsigned(BulkManifest(manifest, n)))
    /\ pc' = "bulk"
    /\ UNCHANGED <<manifest, signerKeys, options, addressToHandlerMap, resolvedManifest,
                   sctpEncoder, preSigPayloadBytes, txHash, messageToSign, linkId,
                   signatures, signLog, result, decoded, rebuilt, verified, permuted,
                   crafted, calls, built, decoder, read,
                   cryptoHandler, loads, objects, runs>>

(* decodeTransaction(tx) and decodeTransaction(tx, {manifest}) *)
Decode ==
    /\ pc = "done"
    /\ \E m \in {NoManifest, manifest} :
        LET opts == [stripVmHeader |-> FALSE, manifest |-> m]
        IN  decoded' = [options |-> opts, out |-> decodeTransaction(result.val.tx, opts)]
    /\ pc' = "decoded"
    /\ UNCHANGED <<manifest, signerKeys, options, addressToHandlerMap, resolvedManifest,
                   sctpEncoder, preSigPayloadBytes, txHash, messageToSign, linkId,
                   signatures, signLog, result, rebuilt, verified, permuted,
                   crafted, bulk, calls, built, decoder, read,
                   cryptoHandler, loads, objects, runs>>

(* number -> its k low bytes, least significant first *)
RECURSIVE LeBytes(_, _)
LeBytes(n, k) == IF k = 0 THEN <<>> ELSE <<n % 256>> \o LeBytes(n \div 256, k - 1)

(* The Lea VM wrapper: "LEAB", the version 0x01, the length of the         *)
(* transaction as a little-endian uint64, then the transaction.            *)
VmWrap(tx) == VmMagic \o <<1>> \o LeBytes(Len(tx), 8) \o tx

WrapperKinds == {"good", "short", "magic", "version", "longer", "shorter", "high"}

(* The wrapped transaction, whole or with one part of the header spoilt. *)
Wrappers(kind, tx) ==
    LET w == VmWrap(tx)
    IN  IF kind = "good" THEN {w}
        ELSE IF kind = "short" THEN {SubSeq(w, 1, n) : n \in {0, VmHeaderLength - 1}}
        ELSE IF kind = "magic" THEN {[w EXCEPT ![i] = (w[i] + 1) % 256] : i \in 1..4}
        ELSE IF kind = "version" THEN {[w EXCEPT ![5] = v] : v \in {0, 2}}
        ELSE IF kind = "longer"
        THEN {SubSeq(w, 1, 5) \o LeBytes(Len(tx) + 1, 8) \o tx, w \o <<0>>}
        ELSE IF kind = "shorter"
        THEN {SubSeq(w, 1, 5) \o LeBytes(Len(tx) - 1, 8) \o tx, SubSeq(w, 1, Len(w) - 1)}
        ELSE {[w EXCEPT ![VmHeaderLength] = 1]}

(* decodeTransaction(wrapped, { stripVmHeader }) *)
DecodeWrapped ==
    /\ pc = "done"
    /\ \E kind \in WrapperKinds, strip \in BOOLEAN :
        \E wrapped \in Wrappers(kind, result.val.tx) :
            LET opts == [stripVmHeader |-> strip, manifest |-> NoManifest]
            IN  decoded' = [options |-> opts, wrapper |-> kind, wrapped |-> wrapped,
                            out |-> decodeTransaction(wrapped, opts)]
    /\ pc' = "decodedWrapped"
    /\ UNCHANGED <<manifest, signerKeys, options, addressToHandlerMap, resolvedManifest,
                   sctpEncoder, preSigPayloadBytes, txHash, messageToSign, linkId,
                   signatures, signLog, result, rebuilt, verified, permuted,
                   crafted, bulk, calls, built, decoder, read,
                   cryptoHandler, loads, objects, runs>>

(* test.mjs 95-114 *)
Rebuild ==
    /\ pc = "decoded"
    /\ decoded.out.ok
    /\ rebuilt' = rebuildTransaction(decoded.out.val)
    /\ pc' = "rebuilt"
    /\ UNCHANGED <<manifest, signerKeys, options, addressToHandlerMap, resolvedManifest,
                   sctpEncoder, preSigPayloadBytes, txHash, messageToSign, linkId,
                   signatures, signLog, result, decoded, verified, permuted,
                   crafted, bulk, calls, built, decoder, read,
                   cryptoHandler, loads, objects, runs>>

(* verifyTransactionWithKeyset(tx, keyset) *)
Verify ==
    /\ pc = "done"
    /\ \E keyset \in VerifyKeysets :
        verified' = [keyset |-> keyset,
                     out    |-> verifyTransactionWithKeyset(signLog, result.val.tx, keyset,
                                                            [stripVmHeader |-> FALSE])]
    /\ pc' = "verified"
    /\ UNCHANGED <<manifest, signerKeys, options, addressToHandlerMap, resolvedManifest,
                   sctpEncoder, preSigPayloadBytes, txHash, messageToSign, linkId,
                   signatures, signLog, result, decoded, rebuilt, permuted,
                   crafted, bulk, calls, built, decoder, read,
                   cryptoHandler, loads, objects, runs>>

Next ==
    \/ Begin \/ LoadSigner \/ Resolve \/ Encode \/ Hash \/ Chain \/ Sign \/ Finish
    \/ Decode \/ Rebuild \/ Verify
    \/ CreateBulk
    \/ DecodeWrapped

Spec == Init /\ [][Next]_vars

(***************************************************************************)
(* The resolver called on its own.                                         *)
(***************************************************************************)
InitResolve ==
    /\ pc = "resolve"
    /\ \E setup \in LoadableSetups, invocations \in SeqsUpTo(ResolveInvocations, MaxRefs) :
        manifest = ManifestOf(setup.feePayer, SignersOf(setup.names), invocations)
    /\ signerKeys = <<>>
    /\ InitLocals
    /\ NoCrafted
    /\ NoCodec
    /\ NoHandler
    /\ NoRuns

ResolveManifest ==
    /\ pc = "resolve"
    /\ resolvedManifest' = resolveManifest(manifest)
    /\ pc' = "resolved"
    /\ UNCHANGED <<manifest, signerKeys, options, addressToHandlerMap, sctpEncoder,
                   preSigPayloadBytes, txHash, messageToSign, linkId, signatures, signLog,
                   result, decoded, rebuilt, verified, permuted,
                   crafted, bulk, calls, built, decoder, read,
                   cryptoHandler, loads, objects, runs>>

(* The same references and the same signers, met in another order.  The    *)
(* authoring manifests of InitResolve are closed under reordering of their *)
(* invocations, so exchanging two neighbours reaches every reordering; the *)
(* signers are taken in every insertion order.                             *)
ResolvePermuted ==
    /\ pc = "resolved"
    /\ \E p \in NeighbourSwaps(Len(manifest.invocations))
                 \cup {Identity(Len(manifest.invocations))},
          q \in IndexPermutations(Len(manifest.signers)) :
        /\ p = Identity(Len(manifest.invocations)) \/ q = Identity(Len(manifest.signers))
        /\ LET input == [manifest EXCEPT !.invocations = Permute(@, p),
                                         !.signers = Permute(@, q)]
           IN  permuted' = [input |-> input, out |-> resolveManifest(input)]
    /\ pc' = "compared"
    /\ UNCHANGED <<manifest, signerKeys, options, addressToHandlerMap, resolvedManifest,
                   sctpEncoder, preSigPayloadBytes, txHash, messageToSign, linkId,
                   signatures, signLog, result, decoded, rebuilt, verified,
                   crafted, bulk, calls, built, decoder, read,
                   cryptoHandler, loads, objects, runs>>

NextResolve == ResolveManifest \/ ResolvePermuted

SpecResolve == InitResolve /\ [][NextResolve]_vars

(***************************************************************************)
(* decodeTransaction called on byte strings that are laid out like a       *)
(* transaction but need not come from createTransaction.                   *)
(***************************************************************************)
MaxTail == 3

TailKinds == {"vector", "largeVector", "uleb", "sleb", "cut"}

WholeVectorKinds == {"vector", "largeVector"}

(* One MSCTP item after the invocations: a small vector, a vector with the *)
(* large header, a ULEB128 or SLEB128 number, or a small vector whose      *)
(* declared length runs past the end of the buffer.                        *)
TailItem(chunks, kind) ==
    IF kind = "vector" THEN addVector(chunks, <<7, 9>>)
    ELSE IF kind = "largeVector"
    THEN addVector(chunks, [i \in 1..(MSCTP_MAX_SMALL_VECTOR_SIZE + 1) |-> 5])
    ELSE IF kind = "uleb" THEN addUleb128(chunks, 0)
    ELSE IF kind = "sleb" THEN addSleb128(chunks, -3)
    ELSE Append(chunks, <<22, 1>>)

RECURSIVE TailItems(_, _)
TailItems(chunks, tail) ==
    IF tail = <<>> THEN chunks ELSE TailItems(TailItem(chunks, Head(tail)), Tail(tail))

RECURSIVE CraftedInvocations(_, _)
CraftedInvocations(chunks, targets) ==
    IF targets = <<>> THEN chunks
    ELSE CraftedInvocations(
            addVector(addUleb128(chunks, Head(targets)), build(addUleb128(<<>>, 1))),
            Tail(targets))

CraftedAddresses == <<AddressX, AddressY>>

CraftedPod == [i \in 1..32 |-> 17]

(* pod, version, sequence, address vector, gasLimit, gasPrice, one         *)
(* invocation per target index, then the tail.                             *)
CraftedTransaction(version, addressCount, targets, tail) ==
    With([header \in {addUleb128(addUleb128(
                        addVector(addUleb128(addUleb128(<<>>, version), 1),
                                  Flatten(SubSeq(CraftedAddresses, 1, addressCount))),
                        100000), 10)} |->
        CraftedPod \o build(TailItems(CraftedInvocations(header, targets), tail))])

InitDecode ==
    /\ pc = "crafted"
    /\ manifest = NotYet
    /\ signerKeys = <<>>
    /\ InitLocals
    /\ NoCodec
    /\ NoHandler
    /\ NoRuns
    /\ \E version \in 0..2, addressCount \in 0..2, targets \in SeqsUpTo(0..2, 1),
          tail \in SeqsUpTo(TailKinds, MaxTail) :
        crafted = [version |-> version, addressCount |-> addressCount,
                   targets |-> targets, tail |-> tail,
                   tx |-> CraftedTransaction(version, addressCount, targets, tail)]

(* decodeTransaction(tx) *)
DecodeCrafted ==
    /\ pc = "crafted"
    /\ decoded' = [options |-> [stripVmHeader |-> FALSE, manifest |-> NoManifest],
                   out     |-> decodeTransaction(crafted.tx, [stripVmHeader |-> FALSE,
                                                              manifest      |-> NoManifest])]
    /\ pc' = "decodedCrafted"
    /\ UNCHANGED <<manifest, signerKeys, options, addressToHandlerMap, resolvedManifest,
                   sctpEncoder, preSigPayloadBytes, txHash, messageToSign, linkId,
                   signatures, signLog, result, rebuilt, verified, permuted,
                   crafted, bulk, calls, built, decoder, read,
                   cryptoHandler, loads, objects, runs>>

(***************************************************************************)
(* The verify command of the CLI (verifier.mjs, cli/index.mjs) on the      *)
(* crafted transactions.  A manifest file is what verifyTransaction reads  *)
(* of it: sequence, gasLimit, gasPrice and the number of invocations.      *)
(***************************************************************************)
(* logCheck *)
logCheck(checks, passed) ==
    IF passed THEN [checks EXCEPT !.pass = @ + 1] ELSE [checks EXCEPT !.fail = @ + 1]

(* catch (e) { logCheck(..., false) } *)
ParseException(checks) == logCheck(checks, FALSE)

HasManifestFile(file) == "sequence" \in DOMAIN file

(* while (decoder.hasNext() && decoder.peekType() === MSCTP_TT_ULEB128) *)
RECURSIVE VerifyInvocations(_, _, _, _)
VerifyInvocations(cursor, addressesLength, count, checks) ==
    IF ~(hasNext(cursor) /\ peekType(cursor) = MSCTP_TT_ULEB128)
    THEN [thrown |-> FALSE, checks |-> checks, count |-> count, offset |-> cursor.offset]
    ELSE With([targetIndex \in {readUleb128(cursor)} |->
         IF ~targetIndex.ok THEN [thrown |-> TRUE, checks |-> checks]
         ELSE With([instructions \in {readVector(At(cursor, targetIndex.val.offset))} |->
         IF ~instructions.ok THEN [thrown |-> TRUE, checks |-> checks]
         ELSE LET validIndex == 32 * targetIndex.val.value < addressesLength
              IN  IF ~validIndex THEN [thrown |-> TRUE, checks |-> logCheck(checks, FALSE)]
                  ELSE VerifyInvocations(At(cursor, instructions.val.offset), addressesLength,
                                         count + 1, logCheck(checks, TRUE))])])

(* while (decoder.hasNext() && the next item is a vector) *)
RECURSIVE VerifySignatures(_, _, _)
VerifySignatures(cursor, count, checks) ==
    IF ~(hasNext(cursor)
         /\ peekType(cursor) \in {MSCTP_TT_SMALL_VECTOR, MSCTP_TT_LARGE_VECTOR})
    THEN [thrown |-> FALSE, checks |-> checks, count |-> count, offset |-> cursor.offset]
    ELSE With([ed25519Signature \in {readVector(cursor)} |->
         IF ~ed25519Signature.ok THEN [thrown |-> TRUE, checks |-> checks]
         ELSE With([checked \in {logCheck(checks, Len(ed25519Signature.val.value) = 64)} |->
              With([falcon512Signature \in
                       {readVector(At(cursor, ed25519Signature.val.offset))} |->
              IF ~falcon512Signature.ok THEN [thrown |-> TRUE, checks |-> checked]
              ELSE VerifySignatures(
                      At(cursor, falcon512Signature.val.offset), count + 1,
                      logCheck(checked, Len(falcon512Signature.val.value) > 0))])])])

(* The try block: the checks counted until the end or until a throw. *)
VerifyChecks(sctpPayload, file) ==
    LET cursor == MsctpDecoder(sctpPayload)
        start  == [pass |-> 0, fail |-> 0]
        Cross(checks, found, field) ==
            IF HasManifestFile(file) THEN logCheck(checks, found = field) ELSE checks
    IN  With([version \in {readUleb128(cursor)} |->
        IF ~version.ok THEN ParseException(start)
        ELSE With([c1 \in {logCheck(start, version.val.value = 1)} |->
        With([sequence \in {readUleb128(At(cursor, version.val.offset))} |->
        IF ~sequence.ok THEN ParseException(c1)
        ELSE With([c2 \in {Cross(c1, sequence.val.value,
                                 IF HasManifestFile(file) THEN file.sequence ELSE 0)} |->
        With([addressesField \in {readVector(At(cursor, sequence.val.offset))} |->
        IF ~addressesField.ok THEN ParseException(c2)
        ELSE With([c3 \in {logCheck(c2, Len(addressesField.val.value) % 32 = 0)} |->
        With([gasLimit \in {readUleb128(At(cursor, addressesField.val.offset))} |->
        IF ~gasLimit.ok THEN ParseException(c3)
        ELSE With([c4 \in {Cross(c3, gasLimit.val.value,
                                 IF HasManifestFile(file) THEN file.gasLimit ELSE 0)} |->
        With([gasPrice \in {readUleb128(At(cursor, gasLimit.val.offset))} |->
        IF ~gasPrice.ok THEN ParseException(c4)
        ELSE With([c5 \in {Cross(c4, gasPrice.val.value,
                                 IF HasManifestFile(file) THEN file.gasPrice ELSE 0)} |->
        With([invocations \in {VerifyInvocations(At(cursor, gasPrice.val.offset),
                                                 Len(addressesField.val.value), 0, c5)} |->
        IF invocations.thrown THEN ParseException(invocations.checks)
        ELSE With([c6 \in {Cross(invocations.checks, invocations.count,
                                 IF HasManifestFile(file) THEN file.invocations ELSE 0)} |->
        With([pairs \in {VerifySignatures(At(cursor, invocations.offset), 0, c6)} |->
        IF pairs.thrown THEN ParseException(pairs.checks)
        ELSE logCheck(logCheck(pairs.checks, pairs.count > 0),
                      ~hasNext(At(cursor, pairs.offset)))
        ])])])])])])])])])])])])])

(* verifyTransaction(txPath, manifestPath): it returns without a value     *)
(* after a failed read of the files and after the checks alike, and no     *)
(* exception leaves it.                                                    *)
verifyTransaction(readable, txBytes, file) ==
    IF ~readable THEN Ok([read |-> FALSE, checks |-> [pass |-> 0, fail |-> 0]])
    ELSE Ok([read   |-> TRUE,
             checks |-> VerifyChecks(Subarray(txBytes, IF Len(txBytes) < 32 THEN Len(txBytes)
                                                       ELSE 32), file)])

(* main(): the process ends with the code 0 when main's promise resolves, *)
(* as no branch of the verify command calls process.exit; a rejection of   *)
(* the promise ends it with the code 1.                                    *)
main(outcome) == IF outcome.ok THEN 0 ELSE 1

(* the manifest file that matches the crafted transaction, one with        *)
(* another sequence, or none                                               *)
ManifestFiles(targets) ==
    {NoManifest} \cup
    {[sequence |-> s, gasLimit |-> 100000, gasPrice |-> 10, invocations |-> Len(targets)] :
        s \in {1, 2}}

(* lea-ltm verify <tx> [<manifest>] *)
VerifyCrafted ==
    /\ pc = "crafted"
    /\ \E readable \in BOOLEAN, file \in ManifestFiles(crafted.targets) :
        \E outcome \in {verifyTransaction(readable, crafted.tx, file)} :
            verified' = [file |-> file, readable |-> readable, outcome |-> outcome,
                         exitCode |-> main(outcome)]
    /\ pc' = "verifiedCrafted"
    /\ UNCHANGED <<manifest, signerKeys, options, addressToHandlerMap, resolvedManifest,
                   sctpEncoder, preSigPayloadBytes, txHash, messageToSign, linkId,
                   signatures, signLog, result, decoded, rebuilt, permuted,
                   crafted, bulk, calls, built, decoder, read,
                   cryptoHandler, loads, objects, runs>>

NextDecode == DecodeCrafted \/ VerifyCrafted

SpecDecode == InitDecode /\ [][NextDecode]_vars

(***************************************************************************)
(* The MSCTP encoder and decoder used on their own (msctp.js, test.mjs):   *)
(* calls on one MsctpEncoder, build(), then reads of one MsctpDecoder over *)
(* the built buffer or over a buffer written by hand.                      *)
(***************************************************************************)
MaxCalls == 2

UlebArguments == {-1, 0, 127, 128, 16384, 268435455}

SlebArguments == {-65, -64, -1, 0, 63, 64}

VectorLengths ==
    {0, MSCTP_MAX_SMALL_VECTOR_SIZE, MSCTP_MAX_SMALL_VECTOR_SIZE + 1,
     MSCTP_MAX_LARGE_VECTOR_SIZE}

VectorArguments == {VectorOf(n) : n \in VectorLengths}

(* The longest buffer the model builds: one vector of the largest size.    *)
MaxBufferLength == MSCTP_MAX_LARGE_VECTOR_SIZE + 4

(* The canonical payload with the continuation bit set on its last byte    *)
(* and one padding byte after it.                                          *)
Lengthen(payload, padding) ==
    [i \in 1..(Len(payload) + 1) |->
        IF i < Len(payload) THEN payload[i]
        ELSE IF i = Len(payload) THEN payload[i] + 128
        ELSE padding]

LengthenedUleb(value) ==
    <<msctp_make_header(0, MSCTP_TT_ULEB128)>> \o Lengthen(_encode_raw_uleb128(value), 0)

LengthenedSleb(value) ==
    <<msctp_make_header(0, MSCTP_TT_SLEB128)>>
        \o Lengthen(_encode_raw_sleb128(value), IF value < 0 THEN 127 ELSE 0)

(* A large-vector header declaring length bytes, followed by present bytes. *)
LargeVectorBuffer(length, present) ==
    <<msctp_make_header(0, MSCTP_TT_LARGE_VECTOR)>> \o _encode_raw_uleb128(length)
        \o VectorOf(present)

DeclaredLengths ==
    {MSCTP_MAX_LARGE_VECTOR_SIZE, MSCTP_MAX_LARGE_VECTOR_SIZE + 1,
     2 * MSCTP_MAX_LARGE_VECTOR_SIZE}

(* <<declared, present>>: nothing or one byte after the header, or the     *)
(* whole payload.                                                          *)
LargeVectorCases ==
    (DeclaredLengths \X {0, 1}) \cup {<<n, n>> : n \in DeclaredLengths \ {2 * MSCTP_MAX_LARGE_VECTOR_SIZE}}

(* Short buffers over the bytes that matter to the readers: the four type  *)
(* tags with modifier 0, a tag with a modifier, a small-vector header of   *)
(* length 1, and a payload byte with the continuation bit.                 *)
MaxRaw == 3

RawBytes == {0, 1, 2, 3, 5, 6, 128}

RawBuffers == UNION {[1..m -> RawBytes] : m \in 0..MaxRaw}

CraftedBuffers ==
    {[kind |-> "raw", value |-> Len(b), data |-> b] : b \in RawBuffers}
    \cup {[kind |-> "lengthenedUleb", value |-> v, data |-> LengthenedUleb(v)] :
        v \in UlebArguments \ {-1}}
    \cup {[kind |-> "lengthenedSleb", value |-> z, data |-> LengthenedSleb(z)] :
        z \in SlebArguments}
    \cup {[kind |-> "largeVector", value |-> c, data |-> LargeVectorBuffer(c[1], c[2])] :
        c \in LargeVectorCases}

InitCodec ==
    /\ pc = "codec"
    /\ manifest = NotYet
    /\ signerKeys = <<>>
    /\ InitLocals
    /\ NoCrafted
    /\ NoCodec
    /\ NoHandler
    /\ NoRuns

CodecUnchanged ==
    UNCHANGED <<pc, manifest, signerKeys, options, addressToHandlerMap, resolvedManifest,
                preSigPayloadBytes, txHash, messageToSign, linkId, signatures, signLog,
                result, decoded, rebuilt, verified, permuted, bulk,
                cryptoHandler, loads, objects, runs>>

(* build()'s totalLength *)
RECURSIVE TotalLength(_)
TotalLength(chunks) ==
    IF chunks = <<>> THEN 0 ELSE Len(Head(chunks)) + TotalLength(Tail(chunks))

Encoding == pc = "codec" /\ decoder = NotYet /\ Len(calls) < MaxCalls

Called(op, arg, chunks) ==
    /\ TotalLength(chunks) <= MaxBufferLength
    /\ sctpEncoder' = chunks
    /\ calls' = Append(calls, [op |-> op, arg |-> arg])
    /\ UNCHANGED <<crafted, built, decoder, read,
                   cryptoHandler, loads, objects, runs>>
    /\ CodecUnchanged

AddUleb128 ==
    /\ Encoding
    /\ \E value \in UlebArguments : Called("addUleb128", value, addUleb128(sctpEncoder, value))

AddSleb128 ==
    /\ Encoding
    /\ \E value \in SlebArguments : Called("addSleb128", value, addSleb128(sctpEncoder, value))

AddVector ==
    /\ Encoding
    /\ \E data \in VectorArguments : Called("addVector", data, addVector(sctpEncoder, data))

Build ==
    /\ pc = "codec"
    /\ decoder = NotYet
    /\ built' = Ok(build(sctpEncoder))
    /\ UNCHANGED <<sctpEncoder, crafted, calls, decoder, read,
                   cryptoHandler, loads, objects, runs>>
    /\ CodecUnchanged

(* new MsctpDecoder(encoder.build()) *)
NewDecoder ==
    /\ pc = "codec"
    /\ decoder = NotYet
    /\ \E data \in {build(sctpEncoder)} :
        /\ built' = Ok(data)
        /\ decoder' = MsctpDecoder(data)
    /\ UNCHANGED <<sctpEncoder, crafted, calls, read>>
    /\ CodecUnchanged

(* new MsctpDecoder(bytes) on bytes written by hand *)
NewDecoderOnCrafted ==
    /\ pc = "codec"
    /\ decoder = NotYet
    /\ calls = <<>>
    /\ built = NotYet
    /\ \E buffer \in CraftedBuffers :
        /\ crafted' = buffer
        /\ decoder' = MsctpDecoder(buffer.data)
    /\ UNCHANGED <<sctpEncoder, calls, built, read>>
    /\ CodecUnchanged

(* A read that throws ends the use of the decoder. *)
Reading ==
    /\ pc = "codec"
    /\ decoder # NotYet
    /\ IF read = <<>> THEN TRUE ELSE read[Len(read)].out.ok

ReadReturned(op, out) ==
    /\ read' = Append(read, [op |-> op, at |-> decoder.offset, out |-> out])
    /\ decoder' = IF out.ok THEN At(decoder, out.val.offset) ELSE decoder
    /\ UNCHANGED <<sctpEncoder, crafted, calls, built>>
    /\ CodecUnchanged

ReadUleb128 == Reading /\ \E out \in {readUleb128(decoder)} : ReadReturned("readUleb128", out)

ReadSleb128 == Reading /\ \E out \in {readSleb128(decoder)} : ReadReturned("readSleb128", out)

ReadVector == Reading /\ \E out \in {readVector(decoder)} : ReadReturned("readVector", out)

NextCodec ==
    \/ AddUleb128 \/ AddSleb128 \/ AddVector \/ Build
    \/ NewDecoder \/ NewDecoderOnCrafted
    \/ ReadUleb128 \/ ReadSleb128 \/ ReadVector

SpecCodec == InitCodec /\ [][NextCodec]_vars

(***************************************************************************)
(* decodeExecutionResult (resultDecoder.mjs).  A resultSchema is a         *)
(* sequence of <<programIdKey, fields>>, fields a sequence of              *)
(* <<fieldName, "type(key)">>; the decoded results are a sequence of       *)
(* <<programIdHex, object>>, an object a sequence of <<fieldName, value>>. *)
(***************************************************************************)
(* The capture of the first match of /\(([^)]+)\)/, or no match. *)
ParenGroup(str) ==
    LET NextClose(i) ==
            IF \E p \in (i + 1)..Len(str) : str[p] = ")"
            THEN CHOOSE p \in (i + 1)..Len(str) :
                    str[p] = ")" /\ \A q \in (i + 1)..(p - 1) : str[q] # ")"
            ELSE 0
        starts == {i \in 1..Len(str) : str[i] = "(" /\ NextClose(i) >= i + 2}
    IN  IF starts = {} THEN Fail("NoMatch")
        ELSE LET i == CHOOSE s \in starts : \A t \in starts : s <= t
             IN  Ok(SubSeq(str, i + 1, NextClose(i) - 1))

SchemaTypes == << <<"u","l","e","b">>, <<"s","l","e","b">>, <<"v","e","c","t","o","r">> >>

(* SCHEMA_REGEX = /^(uleb|sleb|vector)\((\d+)\)$/ and parseInt(match[2], 10) *)
SchemaMatch(schemaValue) ==
    LET fits == {t \in 1..Len(SchemaTypes) :
                    /\ StartsWith(schemaValue, SchemaTypes[t] \o <<"(">>)
                    /\ Len(schemaValue) >= Len(SchemaTypes[t]) + 3
                    /\ schemaValue[Len(schemaValue)] = ")"
                    /\ \A i \in (Len(SchemaTypes[t]) + 2)..(Len(schemaValue) - 1) :
                            IsDigit(schemaValue[i])}
    IN  IF fits = {} THEN Fail("InvalidResultSchema")
        ELSE LET t == CHOOSE u \in fits : TRUE
             IN  Ok([type |-> SchemaTypes[t],
                     key  |-> DigitsValue(SubSeq(schemaValue, Len(SchemaTypes[t]) + 2,
                                                 Len(schemaValue) - 1), 10)])

(* fieldMap: key -> {name, type}, a later field replacing an earlier one   *)
(* with the same key.                                                      *)
RECURSIVE FieldMapOf(_, _)
FieldMapOf(schemaFields, fieldMap) ==
    IF schemaFields = <<>> THEN Ok(fieldMap)
    ELSE With([match \in {SchemaMatch(Head(schemaFields)[2])} |->
         IF ~match.ok THEN match
         ELSE FieldMapOf(Tail(schemaFields),
                         MapSet(fieldMap, match.val.key,
                                [name |-> Head(schemaFields)[1], type |-> match.val.type]))])

(* The loop over the keys of manifest.resultSchema. *)
RECURSIVE ParseSchemaKeys(_, _, _)
ParseSchemaKeys(resultSchema, resolved, parsedSchema) ==
    IF resultSchema = <<>> THEN Ok(parsedSchema)
    ELSE LET programIdKey   == Head(resultSchema)[1]
             match          == ParenGroup(programIdKey)
             alias          == IF match.ok THEN match.val ELSE programIdKey
             aliased        == LiteralOf(resolved.maps.alias, alias)
             literalMatch   == ParenGroup(aliased)
             literalAddress == IF literalMatch.ok THEN literalMatch.val ELSE aliased
         IN  IF ~MapHas(resolved.maps.literal, literalAddress)
             THEN ParseSchemaKeys(Tail(resultSchema), resolved, parsedSchema)
             ELSE With([fieldMap \in {FieldMapOf(Head(resultSchema)[2], <<>>)} |->
                  IF ~fieldMap.ok THEN fieldMap
                  ELSE ParseSchemaKeys(
                          Tail(resultSchema), resolved,
                          MapSet(parsedSchema,
                                 bytesToHex(resolved.addresses[
                                     MapGet(resolved.maps.literal, literalAddress) + 1]),
                                 fieldMap.val))])

(* A manifest here is its constants and its resultSchema; a missing        *)
(* resultSchema is the empty one.                                          *)
parseResultSchema(input) ==
    IF input.resultSchema = <<>> THEN Ok(<<>>)
    ELSE With([resolved \in {resolveManifest(
                 [pod         |-> <<>>,
                  constants   |-> input.constants,
                  signers     |-> <<>>,
                  feePayer    |-> <<>>,
                  sequence    |-> <<>>,
                  gasLimit    |-> <<>>,
                  gasPrice    |-> <<>>,
                  invocations |-> [n \in 1..Len(input.resultSchema) |->
                                      Invocation(input.resultSchema[n][1], <<>>)]])} |->
         IF ~resolved.ok THEN resolved
         ELSE ParseSchemaKeys(input.resultSchema, resolved.val, <<>>)])

(* Number.prototype.toString of a key, for `key_${key}` *)
RECURSIVE ToDecimal(_)
ToDecimal(n) ==
    IF n < 10 THEN <<LowerHex[n + 1]>>
    ELSE Append(ToDecimal(n \div 10), LowerHex[(n % 10) + 1])

(* One turn of the for loop: the key, then the value by its type tag. *)
ReadEntry(cursor, hasSchema, programSchema) ==
    With([key \in {readUleb128(cursor)} |->
    IF ~key.ok THEN key
    ELSE LET at        == [cursor EXCEPT !.offset = key.val.offset]
             typeId    == peekType(at)
             fieldName == IF hasSchema /\ MapHas(programSchema, key.val.value)
                          THEN MapGet(programSchema, key.val.value).name
                          ELSE <<"k","e","y","_">> \o ToDecimal(key.val.value)
         IN  IF ~hasNext(at) THEN Fail("UnsupportedType")
             ELSE With([value \in {IF typeId = MSCTP_TT_ULEB128 THEN readUleb128(at)
                                   ELSE IF typeId = MSCTP_TT_SLEB128 THEN readSleb128(at)
                                   ELSE readVector(at)} |->
                  IF ~value.ok THEN value
                  ELSE Ok([fieldName |-> fieldName,
                           value     |-> IF typeId \in {MSCTP_TT_ULEB128, MSCTP_TT_SLEB128}
                                         THEN [num |-> value.val.value]
                                         ELSE [bytes |-> value.val.value],
                           offset    |-> value.val.offset])])])

RECURSIVE ReadEntries(_, _, _, _, _)
ReadEntries(cursor, remaining, hasSchema, programSchema, decodedObject) ==
    IF remaining = 0 THEN Ok([object |-> decodedObject, offset |-> cursor.offset])
    ELSE With([entry \in {ReadEntry(cursor, hasSchema, programSchema)} |->
         IF ~entry.ok THEN entry
         ELSE ReadEntries([cursor EXCEPT !.offset = entry.val.offset], remaining - 1,
                          hasSchema, programSchema,
                          MapSet(decodedObject, entry.val.fieldName, entry.val.value))])

(* while (decoder.hasNext()) *)
RECURSIVE ReadGroups(_, _, _)
ReadGroups(cursor, schema, results) ==
    IF ~hasNext(cursor) THEN Ok(results)
    ELSE With([programId \in {readVector(cursor)} |->
         IF ~programId.ok THEN programId
         ELSE With([entryCount \in
                       {readUleb128([cursor EXCEPT !.offset = programId.val.offset])} |->
         IF ~entryCount.ok THEN entryCount
         ELSE LET programIdHex == bytesToHex(programId.val.value)
                  hasSchema    == MapHas(schema, programIdHex)
              IN  With([entries \in
                           {ReadEntries([cursor EXCEPT !.offset = entryCount.val.offset],
                                        entryCount.val.value, hasSchema,
                                        IF hasSchema THEN MapGet(schema, programIdHex)
                                        ELSE <<>>, <<>>)} |->
                  IF ~entries.ok THEN entries
                  ELSE ReadGroups([cursor EXCEPT !.offset = entries.val.offset], schema,
                                  MapSet(results, programIdHex, entries.val.object))])])])

decodeExecutionResult(resultBuffer, input) ==
    With([schema \in {parseResultSchema(input)} |->
    IF ~schema.ok THEN schema
    ELSE ReadGroups(MsctpDecoder(resultBuffer), schema.val, <<>>)])

(***************************************************************************)
(* decode-result on its own: a manifest with the schema of MANIFEST.md for *)
(* one program, and an execution result with one group.                    *)
(***************************************************************************)
MaxEntries == 2

TokenContract == <<"t","o","k","e","n","C","o","n","t","r","a","c","t">>

NewBalance == <<"n","e","w","B","a","l","a","n","c","e">>

RecipientAddress == <<"r","e","c","i","p","i","e","n","t","A","d","d","r","e","s","s">>

(* "newBalance": "uleb(0)", "recipientAddress": "vector(1)" *)
TokenFields ==
    << <<NewBalance, <<"u","l","e","b","(","0",")">> >>,
       <<RecipientAddress, <<"v","e","c","t","o","r","(","1",")">> >> >>

(* How the schema names the program AddressX: through a constant holding   *)
(* its Bech32m string, its hex string or an $addr() reference to it, or    *)
(* directly by an $addr() reference or the Bech32m string.                 *)
SchemaForms == {"constBech32m", "constHex", "constAddr", "keyAddr", "keyBech32m"}

SchemaManifest(form) ==
    LET bech == Bech32mEncode(ADDRESS_HRP, AddressX)
    IN  [constants |->
            IF form = "constBech32m" THEN << <<TokenContract, bech>> >>
            ELSE IF form = "constHex" THEN << <<TokenContract, bytesToHex(AddressX)>> >>
            ELSE IF form = "constAddr" THEN << <<TokenContract, AddrRef(bech)>> >>
            ELSE <<>>,
         resultSchema |->
            << << IF form = "keyAddr" THEN AddrRef(bech)
                  ELSE IF form = "keyBech32m" THEN bech
                  ELSE ConstRef(TokenContract),
                  TokenFields >> >>]

(* An entry of the result stream: its numeric key and the kind of value. *)
ResultEntry == (0..2) \X {"uleb", "vector"}

EntryBytes(entries) ==
    LET RECURSIVE Add(_, _)
        Add(chunks, n) ==
            IF n > Len(entries) THEN chunks
            ELSE Add(IF entries[n][2] = "uleb"
                     THEN addUleb128(addUleb128(chunks, entries[n][1]), 40 + n)
                     ELSE addVector(addUleb128(chunks, entries[n][1]), <<7, n>>), n + 1)
    IN  Add(<<>>, 1)

(* vector(programId) uleb(entryCount) then key and value per entry *)
ResultBuffer(programId, entries) ==
    build(addUleb128(addVector(<<>>, programId), Len(entries)) \o EntryBytes(entries))

InitResult ==
    /\ pc = "result"
    /\ manifest = NotYet
    /\ signerKeys = <<>>
    /\ InitLocals
    /\ NoCodec
    /\ NoHandler
    /\ NoRuns
    /\ \E form \in SchemaForms, programId \in {AddressX, AddressY},
          entries \in SeqsUpTo(ResultEntry, MaxEntries) :
            crafted = [form      |-> form,
                       manifest  |-> SchemaManifest(form),
                       programId |-> programId,
                       entries   |-> entries,
                       buffer    |-> ResultBuffer(programId, entries)]

(* decodeExecutionResult(resultBuffer, manifest) *)
DecodeResult ==
    /\ pc = "result"
    /\ decoded' = decodeExecutionResult(crafted.buffer, crafted.manifest)
    /\ pc' = "resultDecoded"
    /\ UNCHANGED <<manifest, signerKeys, options, addressToHandlerMap, resolvedManifest,
                   sctpEncoder, preSigPayloadBytes, txHash, messageToSign, linkId,
                   signatures, signLog, result, rebuilt, verified, permuted,
                   crafted, bulk, calls, built, decoder, read,
                   cryptoHandler, loads, objects, runs>>

NextResult == DecodeResult

SpecResult == InitResult /\ [][NextResult]_vars

(***************************************************************************)
(* One PkmiCryptoHandler loaded several times (pkmiCryptoHandler.mjs): the *)
(* fields keyset, addressBech32m and addressUint8 of the handler before    *)
(* and after each loadKeysetFromObject.                                    *)
(***************************************************************************)
MaxLoads == 3

(* constructor() *)
NewHandler == [keyset |-> Null, addressBech32m |-> Null, addressUint8 |-> Null]

(* The fields are assigned together, before the cross-check. *)
LoadAssignsBeforeCheck(this, input) ==
    LET out == loadKeysetFromObject(input)
    IN  [this |-> IF Len(input.keyset) = 2
                  THEN loadKeysetFromObject([input EXCEPT !.address = <<>>,
                                                          !.addressHex = <<>>]).val
                  ELSE this,
         out  |-> out]

(* handler.loadKeysetFromObject(input): the three fields are assigned      *)
(* together, after the last throw.                                         *)
LoadInto(this, input) ==
    LET out == loadKeysetFromObject(input)
    IN  [this |-> IF out.ok THEN out.val ELSE this, out |-> out]

(* Key files: two sound ones, one declaring its own address in upper-case  *)
(* hex, one declaring its own Bech32m address, one declaring the hex and   *)
(* one the Bech32m address of other keys, and one with a single key pair.  *)
KeyFilesToLoad ==
    { KeyFile(1), KeyFile(2),
      [KeyFile(1) EXCEPT !.addressHex = ToUpperCase(bytesToHex(HandlerOf(1).addressUint8))],
      [KeyFile(2) EXCEPT !.address = HandlerOf(2).addressBech32m],
      [KeyFile(2) EXCEPT !.addressHex = bytesToHex(HandlerOf(1).addressUint8)],
      [KeyFile(1) EXCEPT !.address = HandlerOf(2).addressBech32m],
      [KeyFile(1) EXCEPT !.keyset = <<KeyFile(1).keyset[1]>>] }

InitHandler ==
    /\ pc = "handler"
    /\ manifest = NotYet
    /\ signerKeys = <<>>
    /\ InitLocals
    /\ NoCrafted
    /\ NoCodec
    /\ NoRuns
    /\ cryptoHandler = NewHandler
    /\ loads = <<>>

(* await handler.loadKeysetFromObject(input) *)
LoadKeyset ==
    /\ pc = "handler"
    /\ Len(loads) < MaxLoads
    /\ \E input \in KeyFilesToLoad :
        \E loaded \in {LoadInto(cryptoHandler, input)} :
            /\ cryptoHandler' = loaded.this
            /\ loads' = Append(loads, [input |-> input, before |-> cryptoHandler,
                                       out |-> loaded.out])
    /\ UNCHANGED <<pc, manifest, signerKeys, options, addressToHandlerMap, resolvedManifest,
                   sctpEncoder, preSigPayloadBytes, txHash, messageToSign, linkId,
                   signatures, signLog, result, decoded, rebuilt, verified, permuted,
                   crafted, bulk, calls, built, decoder, read, objects, runs>>

NextHandler == LoadKeyset

SpecHandler == InitHandler /\ [][NextHandler]_vars

(***************************************************************************)
(* Two createTransaction calls in flight at once (index.mjs 93-179).  A    *)
(* call runs from one await to the next without interruption; the calls    *)
(* take turns at the awaits.  objects holds the manifest objects of the    *)
(* callers, one shared by both calls or one each.  The object a call       *)
(* assigns to manifest.signers is named after the call that made it, and   *)
(* its entries are kept in that call's field created; manifest.signers of  *)
(* a manifest object is the name of the object it refers to at the moment. *)
(***************************************************************************)
RunIds == {1, 2}

SharedManifest ==
    ManifestOf(<<"s">>, <<>>, << Invocation(AddrRef(<<"s">>), << [key |-> "uleb", num |-> 1] >>) >>)

(* signerKeys of a call: s alone, s and t, s with the keys of t, and s     *)
(* with a key file that does not load.                                     *)
ConcurrentSignerKeys ==
    { SignerKeysOf(<< <<"s">> >>),
      SignerKeysOf(<< <<"s">>, <<"t">> >>),
      << << <<"s">>, KeyFile(2) >> >>,
      SignerKeysOf(<< <<"s">>, <<"w">> >>) }

NewRun(object, keys) ==
    [object              |-> object,
     signerKeys          |-> keys,
     pc                  |-> "start",
     loaded              |-> 0,
     created             |-> <<>>,
     held                |-> 0,
     addressToHandlerMap |-> <<>>,
     resolvedManifest    |-> NotYet,
     sctpEncoder         |-> <<>>,
     messageToSign       |-> NotYet,
     signerCount         |-> 0,
     signatures          |-> <<>>,
     signedBy            |-> <<>>,
     result              |-> NotYet]

InitConcurrent ==
    /\ pc = "concurrent"
    /\ manifest = NotYet
    /\ signerKeys = <<>>
    /\ InitLocals
    /\ NoCrafted
    /\ NoCodec
    /\ NoHandler
    /\ \E shared \in BOOLEAN, keys1 \in ConcurrentSignerKeys, keys2 \in ConcurrentSignerKeys :
        /\ objects = IF shared THEN << [signers |-> 0] >>
                     ELSE << [signers |-> 0], [signers |-> 0] >>
        /\ runs = << NewRun(1, keys1), NewRun(IF shared THEN 1 ELSE 2, keys2) >>

ConcurrentUnchanged ==
    UNCHANGED <<pc, manifest, signerKeys, options, addressToHandlerMap, resolvedManifest,
                sctpEncoder, preSigPayloadBytes, txHash, messageToSign, linkId, signatures,
                result, decoded, rebuilt, verified, permuted, crafted, bulk, calls, built,
                decoder, read, cryptoHandler, loads>>

Thrown(r, error) == [runs EXCEPT ![r].pc = "failed", ![r].result = error]

(* index.mjs 95-96, up to the first await *)
BeginRun(r) ==
    /\ pc = "concurrent"
    /\ runs[r].pc = "start"
    /\ objects' = [objects EXCEPT ![runs[r].object].signers = r]
    /\ runs' = [runs EXCEPT ![r].pc = "load", ![r].created = <<>>]
    /\ UNCHANGED signLog
    /\ ConcurrentUnchanged

(* index.mjs 97-104: one turn of the loop, from the return of               *)
(* loadKeysetFromObject to the next await; after the last turn              *)
(* resolveManifest is called and takes signers out of its input.            *)
LoadRun(r) ==
    /\ pc = "concurrent"
    /\ runs[r].pc = "load"
    /\ \E entry \in {runs[r].signerKeys[runs[r].loaded + 1]} :
       \E loaded \in {loadKeysetFromObject(entry[2])} :
       \E target \in {objects[runs[r].object].signers} :
           IF ~loaded.ok THEN runs' = Thrown(r, loaded)
           ELSE runs' = [[runs EXCEPT
                            ![target].created = MapSet(@, entry[1], loaded.val)] EXCEPT
                            ![r].addressToHandlerMap =
                                MapSet(@, loaded.val.addressUint8, loaded.val),
                            ![r].loaded = @ + 1,
                            ![r].held = target,
                            ![r].pc = IF runs[r].loaded + 1 = Len(runs[r].signerKeys)
                                      THEN "resolve" ELSE "load"]
    /\ UNCHANGED <<objects, signLog>>
    /\ ConcurrentUnchanged

(* index.mjs 107-117: the passes of resolveManifest over the signers object *)
(* it holds, then the encoding, up to await createBLAKE3()                  *)
ResolveRun(r) ==
    /\ pc = "concurrent"
    /\ runs[r].pc = "resolve"
    /\ \E resolved \in {resolveManifest([SharedManifest EXCEPT
                                            !.signers = runs[runs[r].held].created])} :
           IF ~resolved.ok THEN runs' = Thrown(r, resolved)
           ELSE \E chunks \in {encodePreSignaturePayload(<<>>, resolved.val)} :
                IF ~chunks.ok THEN runs' = Thrown(r, chunks)
                ELSE runs' = [runs EXCEPT ![r].resolvedManifest = resolved,
                                          ![r].sctpEncoder = chunks.val,
                                          ![r].pc = "hash"]
    /\ UNCHANGED <<objects, signLog>>
    /\ ConcurrentUnchanged

(* index.mjs 121-159: the hash, no prevTxHash, and signerCount read from   *)
(* manifest.signers                                                        *)
HashRun(r) ==
    /\ pc = "concurrent"
    /\ runs[r].pc = "hash"
    /\ runs' = [runs EXCEPT
                    ![r].messageToSign =
                        Blake3(runs[r].resolvedManifest.val.pod \o build(runs[r].sctpEncoder)),
                    ![r].signerCount = Len(runs[objects[runs[r].object].signers].created),
                    ![r].pc = "sign"]
    /\ UNCHANGED <<objects, signLog>>
    /\ ConcurrentUnchanged

(* index.mjs 160-168: one turn of the signing loop *)
SignRun(r) ==
    /\ pc = "concurrent"
    /\ runs[r].pc = "sign"
    /\ Len(runs[r].signatures) < runs[r].signerCount
    /\ LET i == Len(runs[r].signatures)
           finalAddressList == runs[r].resolvedManifest.val.addresses
       IN  IF i >= Len(finalAddressList)
           THEN runs' = Thrown(r, Fail("NoSignerAddress")) /\ UNCHANGED signLog
           ELSE IF ~MapHas(runs[r].addressToHandlerMap, finalAddressList[i + 1])
           THEN runs' = Thrown(r, Fail("NoHandlerForAddress")) /\ UNCHANGED signLog
           ELSE \E signed \in {signMessage(signLog,
                                           MapGet(runs[r].addressToHandlerMap,
                                                  finalAddressList[i + 1]),
                                           runs[r].messageToSign)} :
                IF ~signed.ok THEN runs' = Thrown(r, signed) /\ UNCHANGED signLog
                ELSE /\ runs' = [runs EXCEPT
                                    ![r].signatures = Append(@, signed.val.pair),
                                    ![r].signedBy = Append(@, finalAddressList[i + 1])]
                     /\ signLog' = signed.val.log
    /\ UNCHANGED objects
    /\ ConcurrentUnchanged

(* index.mjs 171-179; the result keeps, next to tx, the bytes before the   *)
(* signatures and the addresses that signed.                               *)
FinishRun(r) ==
    /\ pc = "concurrent"
    /\ runs[r].pc = "sign"
    /\ Len(runs[r].signatures) = runs[r].signerCount
    /\ runs' = [runs EXCEPT
                    ![r].pc = "done",
                    ![r].result =
                        Ok([tx       |-> runs[r].resolvedManifest.val.pod
                                         \o build(appendSignatures(runs[r].sctpEncoder,
                                                                   runs[r].signatures)),
                            payload  |-> runs[r].resolvedManifest.val.pod
                                         \o build(runs[r].sctpEncoder),
                            signedBy |-> runs[r].signedBy])]
    /\ UNCHANGED <<objects, signLog>>
    /\ ConcurrentUnchanged

NextConcurrent ==
    \E r \in RunIds :
        \/ BeginRun(r) \/ LoadRun(r) \/ ResolveRun(r) \/ HashRun(r) \/ SignRun(r)
        \/ FinishRun(r)

SpecConcurrent == InitConcurrent /\ [][NextConcurrent]_vars

(* createTransaction(manifest, keys) run with no other call in flight: the *)
(* error it throws, or the bytes before the signatures and the addresses   *)
(* that sign.                                                              *)
RECURSIVE LoadAll(_, _, _)
LoadAll(keys, signers, handlers) ==
    IF keys = <<>> THEN Ok([signers |-> signers, handlers |-> handlers])
    ELSE With([loaded \in {loadKeysetFromObject(Head(keys)[2])} |->
         IF ~loaded.ok THEN loaded
         ELSE LoadAll(Tail(keys), MapSet(signers, Head(keys)[1], loaded.val),
                      MapSet(handlers, loaded.val.addressUint8, loaded.val))])

RunAlone(m, keys) ==
    With([loaded \in {LoadAll(keys, <<>>, <<>>)} |->
    IF ~loaded.ok THEN loaded
    ELSE With([resolved \in {resolveManifest([m EXCEPT !.signers = loaded.val.signers])} |->
    IF ~resolved.ok THEN resolved
    ELSE With([chunks \in {encodePreSignaturePayload(<<>>, resolved.val)} |->
    IF ~chunks.ok THEN chunks
    ELSE LET count == Len(loaded.val.signers)
             list  == resolved.val.addresses
         IN  IF count > Len(list) THEN Fail("NoSignerAddress")
             ELSE IF \E i \in 1..count : ~MapHas(loaded.val.handlers, list[i])
             THEN Fail("NoHandlerForAddress")
             ELSE Ok([payload  |-> resolved.val.pod \o build(chunks.val),
                      signedBy |-> SubSeq(list, 1, count)])])])])

(***************************************************************************)
(* Properties of the resolver (checked under SpecResolve).                 *)
(***************************************************************************)
Returned == resolvedManifest.ok

Addresses == resolvedManifest.val.addresses

SignerAddresses == {manifest.signers[i][2].addressUint8 : i \in 1..Len(manifest.signers)}

(* The address a reference denotes: the constant's value, the signer's     *)
(* address, or the literal itself.                                         *)
DenotedAddress(ref) ==
    LET key == AddrKey(ReplaceConstants(ref, manifest.constants).val)
    IN  IF MapHas(manifest.constants, key)
        THEN decodeAddress(ReplaceConstants(MapGet(manifest.constants, key),
                                            manifest.constants).val).val
        ELSE IF MapHas(manifest.signers, key)
        THEN MapGet(manifest.signers, key).addressUint8
        ELSE decodeAddress(key).val

IsAddrRef(str) == StartsWith(str, AddrPrefix)

(* C1: for a manifest resolved with at least one signer, entry 0 of the    *)
(* address table is the fee payer's address, entries 1..S-1 are the other  *)
(* signers' addresses in ascending byte order and entries S..N-1 are the   *)
(* referenced non-signer addresses in ascending byte order, S being the    *)
(* number of distinct signer addresses and N the table length.             *)
C1_SignersThenSortedNonSigners ==
    Returned /\ Len(manifest.signers) > 0 =>
        LET S == Cardinality(SignerAddresses)
            N == Len(Addresses)
        IN  /\ S <= N
            /\ Addresses[1] = MapGet(manifest.signers, manifest.feePayer).addressUint8
            /\ {Addresses[i] : i \in 1..S} = SignerAddresses
            /\ \A i \in 2..(S - 1) : compareByteArrays(Addresses[i], Addresses[i + 1]) < 0
            /\ \A i \in (S + 1)..N : Addresses[i] \notin SignerAddresses
            /\ \A i \in (S + 1)..(N - 1) :
                    compareByteArrays(Addresses[i], Addresses[i + 1]) <= 0

(* C2: the address table returned by resolveManifest never contains two    *)
(* byte-equal entries, whatever mix of aliases and literal spellings the   *)
(* references use.                                                         *)
C2_NoDuplicateAddresses ==
    Returned => \A i, j \in 1..Len(Addresses) : Addresses[i] = Addresses[j] => i = j

(* C1 on the tables without duplicates: the order of C1 fails only where   *)
(* C2 fails.                                                               *)
C1_HoldsWithoutDuplicates ==
    Returned /\ (\A i, j \in 1..Len(Addresses) : Addresses[i] = Addresses[j] => i = j)
        => C1_SignersThenSortedNonSigners

(* A value that was a $addr(ref) string is now the index of the 32-byte    *)
(* address the reference denotes.                                          *)
ResolvedTo(ref, index) ==
    /\ index \in 0..(Len(Addresses) - 1)
    /\ Addresses[index + 1] = DenotedAddress(ref)
    /\ Len(Addresses[index + 1]) = AddrLen

(* C6: in every resolved manifest each value that was a $addr(ref) string, *)
(* every targetAddress included, has been replaced by an integer i with    *)
(* 0 <= i < addresses.length such that addresses[i] is the 32-byte address *)
(* denoted by ref; resolveManifest does not return with a reference left   *)
(* unresolved.                                                             *)
C6_ReferencesResolvedToTheirAddress ==
    Returned =>
        \A n \in 1..Len(manifest.invocations) :
            LET src == manifest.invocations[n]
                out == resolvedManifest.val.invocations[n]
            IN  /\ IsAddrRef(src.targetAddress) =>
                        /\ "num" \in DOMAIN out.targetAddress
                        /\ ResolvedTo(src.targetAddress, out.targetAddress.num)
                /\ \A k \in 1..Len(src.instructions) :
                        IsStr(src.instructions[k]) /\ IsAddrRef(src.instructions[k].str) =>
                            /\ IsNum(out.instructions[k])
                            /\ ResolvedTo(src.instructions[k].str, out.instructions[k].num)

(* C6 without the length of the entries: the index is in range and the     *)
(* entry holds the bytes the reference denotes; C6 fails only where C8     *)
(* fails.                                                                  *)
C6_ReferencesResolvedToTheirBytes ==
    Returned =>
        \A n \in 1..Len(manifest.invocations) :
            LET src == manifest.invocations[n]
                out == resolvedManifest.val.invocations[n]
            IN  /\ "num" \in DOMAIN out.targetAddress
                /\ out.targetAddress.num \in 0..(Len(Addresses) - 1)
                /\ Addresses[out.targetAddress.num + 1] = DenotedAddress(src.targetAddress)
                /\ \A k \in 1..Len(src.instructions) :
                        IsStr(src.instructions[k]) /\ IsAddrRef(src.instructions[k].str) =>
                            /\ IsNum(out.instructions[k])
                            /\ out.instructions[k].num \in 0..(Len(Addresses) - 1)
                            /\ Addresses[out.instructions[k].num + 1]
                                    = DenotedAddress(src.instructions[k].str)

C8_EveryAddressIs32Bytes ==
    Returned => \A i \in 1..Len(Addresses) : Len(Addresses[i]) = AddrLen

(***************************************************************************)
(* Properties of createTransaction and of the decoder and verifier applied *)
(* to what it returns (checked under Spec).                                *)
(***************************************************************************)
TxReturned == pc \in {"done", "decoded", "rebuilt", "verified"}

(* the handlers createTransaction loaded whose derived address is address *)
HandlersAt(address) ==
    {manifest.signers[n][2] : n \in {m \in 1..Len(manifest.signers) :
                                        manifest.signers[m][2].addressUint8 = address}}

(* pair was produced over message by handler, according to the sign calls *)
ProducedBy(log, pair, handler, message) ==
    /\ verifyWith(log, "ed25519", handler.keyset.ed25519.pk, pair.ed25519, message).val
    /\ verifyWith(log, "falcon512", handler.keyset.falcon512.pk, pair.falcon512, message).val

(* one vector chunk of the byte stream *)
VectorBytes(data) ==
    IF Len(data) <= 63 THEN <<4 * Len(data) + 2>> \o data
    ELSE <<3>> \o _encode_raw_uleb128(Len(data)) \o data

SignatureBytes(pairs) ==
    Flatten([i \in 1..Len(pairs) |->
                VectorBytes(pairs[i].ed25519) \o VectorBytes(pairs[i].falcon512)])

C3_Returned ==
    TxReturned =>
        /\ Len(signatures) = Len(signerKeys)
        /\ result.val.tx = resolvedManifest.val.pod \o preSigPayloadBytes
                               \o SignatureBytes(signatures)
        /\ \A i \in 1..Len(signatures) :
            \E handler \in HandlersAt(resolvedManifest.val.addresses[i]) :
                ProducedBy(signLog, signatures[i], handler, messageToSign)

(* a step that gathers a signature asks the handler of the next table      *)
(* entry, Ed25519 first and Falcon-512 second, and appends its pair         *)
C3_Step ==
    signatures' # signatures =>
        LET i     == Len(signatures) + 1
            fresh == SubSeq(signLog', Len(signLog) + 1, Len(signLog'))
        IN  /\ Len(signatures') = i
            /\ SubSeq(signatures', 1, i - 1) = signatures
            /\ SubSeq(signLog', 1, Len(signLog)) = signLog
            /\ \E handler \in HandlersAt(resolvedManifest.val.addresses[i]) :
                /\ ProducedBy(signLog', signatures'[i], handler, messageToSign)
                /\ LET ed  == [alg |-> "ed25519", sk |-> handler.keyset.ed25519.sk,
                               message |-> messageToSign]
                       fal == [alg |-> "falcon512", sk |-> handler.keyset.falcon512.sk,
                               message |-> messageToSign]
                   IN  fresh \in {<<ed, fal>>, <<fal>>}

(* C3: a transaction returned by createTransaction with S signers carries  *)
(* exactly S signature pairs after the last invocation block, the i-th     *)
(* pair (Ed25519 vector, then Falcon-512 vector) produced by the handler   *)
(* whose derived address is addresses[i]; the sign calls are issued in     *)
(* that order, one after the other, and all over the same message.         *)
C3_SignaturesInTableOrder == [](C3_Returned) /\ [][C3_Step]_vars

C3_Witness ==
    /\ pc = "done"
    /\ Len(signatures) = 3
    /\ Len(resolvedManifest.val.addresses) > 3

(* C4: for every transaction tx returned by createTransaction,             *)
(* decodeTransaction(tx).hashes.preSignature is the byte string that       *)
(* createTransaction hashed, preSignature followed by signatureSection is  *)
(* tx without its 32-byte pod, and hashes.base() equals the returned txId. *)
C4_DecodedHashesCoverPayload ==
    pc = "decoded" =>
        /\ decoded.out.ok
        /\ decoded.out.val.hashes.preSignature = preSigPayloadBytes
        /\ decoded.out.val.hashes.preSignature \o decoded.out.val.hashes.signatureSection
                = SubSeq(result.val.tx, 33, Len(result.val.tx))
        /\ [hex |-> HashesBase(decoded.out.val)] = result.val.txId

(* C5: decoding a transaction produced from manifest m with                *)
(* decodeTransaction(tx, {manifest: m}) and re-encoding the decoded fields *)
(* and signatures behind the decoded pod yields the bytes of tx.           *)
C5_DecodeThenEncodeIsIdentity ==
    pc \in {"decoded", "rebuilt"} /\ HasLayout(decoded.options.manifest) =>
        /\ decoded.out.ok
        /\ pc = "rebuilt" => rebuilt.ok /\ rebuilt.val = result.val.tx

All32Bytes ==
    \A i \in 1..Len(resolvedManifest.val.addresses) :
        Len(resolvedManifest.val.addresses[i]) = AddrLen

(* C4 and C5 on the transactions whose table entries are all 32 bytes long: *)
(* they fail only where C8 fails.                                           *)
C4_HoldsFor32ByteTables == pc = "decoded" /\ All32Bytes => C4_DecodedHashesCoverPayload

C5_HoldsFor32ByteTables ==
    pc \in {"decoded", "rebuilt"} /\ All32Bytes => C5_DecodeThenEncodeIsIdentity

BaseHash == [blake3 |-> resolvedManifest.val.pod \o preSigPayloadBytes]

PrevAbsent == "absent" \in DOMAIN options \/ "undefined" \in DOMAIN options

PrevIs32Bytes == "bytes" \in DOMAIN options /\ Len(options.bytes) = 32

PrevIsZero == PrevIs32Bytes /\ \A i \in 1..32 : options.bytes[i] = 0

LinkHash == [blake3 |-> DOMAIN_TX_LINK_V1, then |-> <<options, BaseHash>>]

SignerPublicKeys ==
    [ed25519   |-> [pk |-> signerKeys[1][2].keyset[1][2]],
     falcon512 |-> [pk |-> signerKeys[1][2].keyset[2][2]]]

(* C10: verifyTransactionWithKeyset returns ok = true with both results    *)
(* true for every transaction createTransaction produced with exactly one  *)
(* signer, whatever its options, when called with that signer's public     *)
(* keys; it fails when the number of signature pairs is not one; ok is the *)
(* conjunction of the two results.                                         *)
C10_VerifiesSingleSignerTransactions ==
    pc = "verified" =>
        /\ Len(signerKeys) = 1 /\ verified.keyset = SignerPublicKeys =>
                /\ verified.out.ok
                /\ verified.out.val = [ok |-> TRUE, ed25519 |-> TRUE, falcon512 |-> TRUE]
        /\ Len(signatures) # 1 => ~verified.out.ok
        /\ verified.out.ok =>
                verified.out.val.ok = (verified.out.val.ed25519 /\ verified.out.val.falcon512)

(* C10 on the transactions signed over the base hash whose table entries   *)
(* are all 32 bytes long.                                                  *)
C10_HoldsForUnchainedTransactions ==
    pc = "verified" /\ All32Bytes /\ (PrevAbsent \/ PrevIsZero)
        => C10_VerifiesSingleSignerTransactions

(***************************************************************************)
(* Properties of decodeTransaction on crafted bytes (checked under         *)
(* SpecDecode).                                                            *)
(***************************************************************************)
DecodedCrafted == pc = "decodedCrafted"

(* C11: decodeTransaction rejects every transaction whose version field is *)
(* not 1, so every transaction it returns has version 1.                   *)
C11_RejectsOtherVersions ==
    (DecodedCrafted /\ crafted.version # 1) => ~decoded.out.ok

(* C12: decodeTransaction rejects an invocation whose target index is not  *)
(* below the number of addresses, so in every returned transaction each    *)
(* invocation's targetAddress is an index into addresses.                  *)
C12_TargetsAreAddressIndexes ==
    (DecodedCrafted /\ decoded.out.ok) =>
        \A i \in 1..Len(decoded.out.val.invocations) :
            /\ 0 <= decoded.out.val.invocations[i].targetAddress.num
            /\ decoded.out.val.invocations[i].targetAddress.num
                   < Len(decoded.out.val.addresses)

(* The crafted bytes are a well-formed pre-signature section (version 1,   *)
(* targets inside the address table) followed by the tail.                 *)
CraftedWellFormed ==
    /\ crafted.version = 1
    /\ \A i \in 1..Len(crafted.targets) : crafted.targets[i] < crafted.addressCount

CraftedPayload == Subarray(crafted.tx, 32)

C13_UnpairedReached ==
    /\ DecodedCrafted
    /\ CraftedWellFormed
    /\ crafted.tail = <<"vector", "vector", "vector">>
    /\ ~decoded.out.ok

(***************************************************************************)
(* Properties of the MSCTP encoder and decoder (checked under SpecCodec).  *)
(***************************************************************************)
(* The calls whose argument is in the domain of the encoding: ULEB128 is   *)
(* for unsigned integers.                                                  *)
Encodable(call) == call.op = "addUleb128" => call.arg >= 0

EncodableCalls == SelectSeq(calls, Encodable)

ReadFor(op) ==
    IF op = "addUleb128" THEN "readUleb128"
    ELSE IF op = "addSleb128" THEN "readSleb128"
    ELSE "readVector"

(* The first k reads are the reads for the first k encodable calls.        *)
ReadsFollowCalls(k) ==
    /\ k <= Len(read)
    /\ k <= Len(EncodableCalls)
    /\ \A j \in 1..k : read[j].op = ReadFor(EncodableCalls[j].op)

DecodingBuilt == pc = "codec" /\ crafted = NotYet /\ decoder # NotYet

(* C15: the primitives round-trip.  Reading the built buffer with the read *)
(* for each encoded unsigned integer, signed integer or vector (of length  *)
(* 0 .. 2^20) returns the encoded values in order and leaves hasNext()     *)
(* false; a vector of at most 63 bytes is encoded with the one-byte header *)
(* (len << 2) | 2, a longer one with header 0x03 and the ULEB128 length.   *)
C15_PrimitivesRoundTrip ==
    DecodingBuilt =>
        /\ \A k \in 1..Len(read) :
            ReadsFollowCalls(k) =>
                /\ read[k].out.ok
                /\ read[k].out.val.value = EncodableCalls[k].arg
        /\ (Len(read) = Len(EncodableCalls) /\ ReadsFollowCalls(Len(read)))
            => ~hasNext(decoder)
        /\ \A j \in 1..Len(EncodableCalls) :
            EncodableCalls[j].op = "addVector" =>
                LET data  == EncodableCalls[j].arg
                    chunk == sctpEncoder[j]
                    leb   == _encode_raw_uleb128(Len(data))
                IN  IF Len(data) <= 63
                    THEN chunk = <<4 * Len(data) + 2>> \o data
                    ELSE chunk = <<3>> \o leb \o data

(* An unsigned integer and a vector with the large header, both read back. *)
C15_Witness ==
    /\ DecodingBuilt
    /\ Len(calls) = 2
    /\ calls[1] = [op |-> "addUleb128", arg |-> 16384]
    /\ calls[2].op = "addVector"
    /\ Len(calls[2].arg) = 64
    /\ ReadsFollowCalls(2)
    /\ read[2].out.ok
    /\ ~hasNext(decoder)

C15_SignedRoundTripReached ==
    /\ DecodingBuilt
    /\ calls = <<[op |-> "addSleb128", arg |-> -65]>>
    /\ ReadsFollowCalls(1)
    /\ read[1].out.ok
    /\ read[1].out.val.value = -65

DecodingCrafted == pc = "codec" /\ crafted # NotYet /\ read # <<>>

(* C16: a ULEB128 or SLEB128 payload lengthened by one padding byte (the   *)
(* continuation bit set on its last byte, then 0x00, or 0x7f for a         *)
(* negative signed value) is not read as the value: readUleb128 and        *)
(* readSleb128 fail with the overlong error.                               *)
C16_OverlongVarintsRejected ==
    DecodingCrafted =>
        /\ (crafted.kind = "lengthenedUleb" /\ read[1].op = "readUleb128")
            => (~read[1].out.ok /\ read[1].out.err = "OverlongLeb128")
        /\ (crafted.kind = "lengthenedSleb" /\ read[1].op = "readSleb128")
            => (~read[1].out.ok /\ read[1].out.err = "OverlongLeb128")

(* 0xff 0x7f after the SLEB128 header: -1 with one padding byte.           *)
C16_Witness ==
    /\ DecodingCrafted
    /\ crafted.kind = "lengthenedSleb"
    /\ crafted.value = -1
    /\ crafted.data = <<0, 255, 127>>
    /\ read[1].op = "readSleb128"
    /\ ~read[1].out.ok

C16_UnsignedReached ==
    /\ DecodingCrafted
    /\ crafted.kind = "lengthenedUleb"
    /\ crafted.value = 128
    /\ crafted.data = <<1, 128, 129, 0>>
    /\ read[1].op = "readUleb128"
    /\ ~read[1].out.ok

(* C17: readVector on a large-vector header that declares more than 2^20   *)
(* bytes fails with the size-limit error whether no byte, one byte or the  *)
(* whole declared payload follows; a declared length of exactly 2^20 with  *)
(* its payload present is read.                                            *)
C17_SizeLimitBeforeBounds ==
    (DecodingCrafted /\ crafted.kind = "largeVector" /\ read[1].op = "readVector") =>
        /\ crafted.value[1] > 1048576
            => (~read[1].out.ok /\ read[1].out.err = "SizeLimitExceeded")
        /\ (crafted.value[1] = 1048576 /\ crafted.value[2] = 1048576)
            => (read[1].out.ok /\ Len(read[1].out.val.value) = 1048576)

(* 2^20 + 1 declared, one byte present. *)
C17_Witness ==
    /\ DecodingCrafted
    /\ crafted.kind = "largeVector"
    /\ crafted.value = <<1048577, 1>>
    /\ read[1].op = "readVector"
    /\ ~read[1].out.ok

(* C18: every call to addUleb128, addSleb128 or addVector, whatever its    *)
(* argument, appends exactly one chunk and changes no earlier chunk, so    *)
(* the encoder holds one chunk per call in call order.                     *)
C18_OneChunkPerCall ==
    [][(pc = "codec" /\ calls' # calls) =>
        /\ Len(sctpEncoder') = Len(sctpEncoder) + 1
        /\ SubSeq(sctpEncoder', 1, Len(sctpEncoder)) = sctpEncoder]_vars

(* What holds of the encoder: a call appends at most one chunk and changes *)
(* no earlier chunk, it appends one when its argument is encodable, and    *)
(* the result of an earlier build() is a prefix of a later build().        *)
C18_AppendOnly ==
    [][(pc = "codec" /\ calls' # calls) =>
        /\ Len(sctpEncoder') <= Len(sctpEncoder) + 1
        /\ SubSeq(sctpEncoder', 1, Len(sctpEncoder)) = sctpEncoder
        /\ Encodable(calls'[Len(calls')]) => Len(sctpEncoder') = Len(sctpEncoder) + 1]_vars

C18_EarlierBuildIsPrefix ==
    (pc = "codec" /\ built.ok) => StartsWith(build(sctpEncoder), built.val)

(***************************************************************************)
(* The Quick Start transfer (checked under Spec).                          *)
(***************************************************************************)
(* createTransaction(m, {sender: keys}) without options *)
QuickStartCall(m) ==
    /\ signerKeys = QuickStartSignerKeys
    /\ manifest.invocations = m.invocations
    /\ options = [absent |-> TRUE]

CallEnded == pc \notin {"start", "load", "encode", "hash", "chain", "sign"}

(* pod, version 1, sequence 1, the two addresses, gasLimit, gasPrice, the  *)
(* target index and the instruction bytes.                                 *)
TransferPrefix(targetIndex, instructionBytes) ==
    [i \in 1..32 |-> 17]
        \o <<1, 1>> \o <<1, 1>>
        \o <<3, 64>> \o HandlerOf(1).addressUint8 \o AddressX
        \o <<1, 160, 141, 6>> \o <<1, 10>>
        \o <<1, targetIndex>>
        \o <<4 * Len(instructionBytes) + 2>> \o instructionBytes

(* The bytes after the prefix are two vectors and nothing else. *)
TwoVectorsFollow(tx, prefix) ==
    /\ StartsWith(tx, prefix)
    /\ LET first == readVector([data |-> tx, offset |-> Len(prefix)])
       IN  /\ first.ok
           /\ LET second == readVector([data |-> tx, offset |-> first.val.offset])
              IN  second.ok /\ second.val.offset = Len(tx)

(* C19: the minimal signed transfer succeeds.  createTransaction on the    *)
(* Quick Start manifest (instructions {uleb: 1} and {uint64: '500'})       *)
(* returns bytes that begin with the pod of 0x11, uvarint(1), uvarint(1),  *)
(* the vector of the two addresses, uvarint(100000), uvarint(10),          *)
(* uvarint(0) and the vector of the instruction bytes, followed by two     *)
(* signature vectors.                                                      *)
C19_MinimalTransferSucceeds ==
    (QuickStartCall(QuickStartManifest) /\ CallEnded) =>
        /\ result.ok
        /\ \E amount \in {<<>>, <<1, 244, 3>>} :
            TwoVectorsFollow(result.val.tx, TransferPrefix(0, <<1, 1>> \o amount))

(* What holds: with the amount written as {uleb: 500} the call returns the *)
(* layout, and the target, second in the address table after the fee       *)
(* payer, has index 1.                                                     *)
C19_TransferWithUlebAmount ==
    (QuickStartCall(QuickStartWithUleb) /\ CallEnded) =>
        /\ result.ok
        /\ TwoVectorsFollow(result.val.tx, TransferPrefix(1, <<1, 1, 1, 244, 3>>))

C19_UlebTransferReached ==
    QuickStartCall(QuickStartWithUleb) /\ pc = "done"

(***************************************************************************)
(* The fee payer (checked under SpecResolve).                              *)
(***************************************************************************)
Resolved == pc = "resolved"

HasSigners == Len(manifest.signers) > 0

(* C20: with at least one signer, resolveManifest fails with the           *)
(* missing-fee-payer error when the manifest has no feePayer and with the  *)
(* unknown-fee-payer error when feePayer names no signer, and returns no   *)
(* resolved manifest; a resolved manifest with signers has feePayer = 0    *)
(* and one without signers has no feePayer field.                          *)
C20_FeePayerChecked ==
    Resolved =>
        /\ (HasSigners /\ manifest.feePayer = <<>>)
            => (~resolvedManifest.ok /\ resolvedManifest.err = "MissingFeePayer")
        /\ (HasSigners /\ manifest.feePayer # <<>> /\ ~MapHas(manifest.signers, manifest.feePayer))
            => (~resolvedManifest.ok /\ resolvedManifest.err = "UnknownFeePayer")
        /\ (resolvedManifest.ok /\ HasSigners) => resolvedManifest.val.feePayer = <<0>>
        /\ (resolvedManifest.ok /\ ~HasSigners) => resolvedManifest.val.feePayer = <<>>

(* One signer, no feePayer, and an invocation: the call fails. *)
C20_Witness ==
    /\ Resolved
    /\ HasSigners
    /\ manifest.feePayer = <<>>
    /\ manifest.invocations # <<>>
    /\ ~resolvedManifest.ok

C20_UnknownReached ==
    /\ Resolved
    /\ HasSigners
    /\ manifest.feePayer = <<"z">>
    /\ ~resolvedManifest.ok

C20_FeePayerZeroReached ==
    Resolved /\ HasSigners /\ resolvedManifest.ok /\ resolvedManifest.val.feePayer = <<0>>

C20_UnsignedReached ==
    Resolved /\ ~HasSigners /\ resolvedManifest.ok /\ resolvedManifest.val.addresses # <<>>

(***************************************************************************)
(* The size of the transaction (checked under Spec).                       *)
(***************************************************************************)
(* C14: createTransaction never returns transaction bytes longer than      *)
(* 1 MiB and never returns bytes from which an over-sized vector has been  *)
(* left out: it fails instead.  A returned transaction is at most 2^20     *)
(* bytes long, decodes, and carries the invocation's instruction.          *)
C14_SizeBudgetEnforced ==
    (pc = "bulk" /\ bulk.returned) =>
        /\ bulk.txLength <= 1048576
        /\ bulk.decodes
        /\ bulk.instructions = 1

(* What holds: a transaction that fits is returned whole. *)
C14_FittingVectorIsKept ==
    (pc = "bulk" /\ bulk.length = 1048576 - 128) =>
        /\ bulk.returned
        /\ bulk.txLength <= 1048576
        /\ bulk.decodes
        /\ bulk.instructions = 1

C14_FittingReached == pc = "bulk" /\ bulk.length = 1048576 - 128 /\ bulk.returned

(* A vector of 2^20 + 1 bytes is left out of the returned bytes, and with  *)
(* a vector of 2^20 - 3 bytes the returned bytes do not decode.            *)
C14_LeftOutReached ==
    pc = "bulk" /\ bulk.length = 1048577 /\ bulk.returned /\ bulk.instructions = 0

C14_UndecodableReached ==
    pc = "bulk" /\ bulk.length = 1048573 /\ bulk.returned /\ ~bulk.decodes

(***************************************************************************)
(* The cursor of the decoder and canonical encodings (checked under        *)
(* SpecCodec).                                                             *)
(***************************************************************************)
LastRead == read'[Len(read')]

(* C29: a read of the decoder either throws and leaves offset unchanged or *)
(* returns after advancing offset by at least one byte and not past        *)
(* data.length, and never touches data; so 0 <= offset <= data.length      *)
(* always, and a loop of reads under hasNext() makes progress at every     *)
(* turn until it returns or throws.                                        *)
C29_ReadsAdvanceWithinBuffer ==
    [][(pc = "codec" /\ read' # read) =>
        /\ decoder'.data = decoder.data
        /\ 0 <= decoder.offset /\ decoder.offset <= Len(decoder.data)
        /\ IF LastRead.out.ok
           THEN /\ decoder'.offset = LastRead.out.val.offset
                /\ decoder'.offset >= decoder.offset + 1
                /\ decoder'.offset <= Len(decoder.data)
           ELSE decoder'.offset = decoder.offset]_vars

(* A small vector read in the middle of a hand-written buffer. *)
C29_Witness ==
    /\ pc = "codec"
    /\ crafted # NotYet
    /\ crafted.data = <<1, 5, 6>>
    /\ Len(read) = 2
    /\ read[1].op = "readUleb128" /\ read[1].out.ok
    /\ read[2].op = "readVector" /\ ~read[2].out.ok
    /\ decoder.offset = 2

Reencoded(op, value) ==
    IF op = "readUleb128" THEN build(addUleb128(<<>>, value))
    ELSE IF op = "readSleb128" THEN build(addSleb128(<<>>, value))
    ELSE build(addVector(<<>>, value))

(* C30: the decoder accepts only canonical encodings.  Whenever a read     *)
(* succeeds, encoding the returned value again gives exactly the bytes the *)
(* read consumed; a vector of at most 63 bytes is accepted only with the   *)
(* small-vector header.                                                    *)
C30_OnlyCanonicalAccepted ==
    pc = "codec" =>
        \A k \in 1..Len(read) :
            read[k].out.ok =>
                SubSeq(decoder.data, read[k].at + 1, read[k].out.val.offset)
                    = Reencoded(read[k].op, read[k].out.val.value)

(* What holds: the numbers are accepted in their canonical form only, and  *)
(* so are the vectors that come with the small header.                     *)
C30_NumbersAndSmallVectorsCanonical ==
    pc = "codec" =>
        \A k \in 1..Len(read) :
            (/\ read[k].out.ok
             /\ \/ read[k].op # "readVector"
                \/ msctp_get_tt(decoder.data[read[k].at + 1]) = MSCTP_TT_SMALL_VECTOR) =>
                SubSeq(decoder.data, read[k].at + 1, read[k].out.val.offset)
                    = Reencoded(read[k].op, read[k].out.val.value)

(***************************************************************************)
(* Decoding of execution results (checked under SpecResult).               *)
(***************************************************************************)
(* The name the schema of MANIFEST.md gives the entry with this key. *)
SchemaName(key) ==
    IF key = 0 THEN NewBalance
    ELSE IF key = 1 THEN RecipientAddress
    ELSE <<"k","e","y","_">> \o ToDecimal(key)

ResultDecoded == pc = "resultDecoded"

(* The entry of the result map for the program holds every entry of the   *)
(* group under the name of the schema.                                     *)
StoredUnderSchemaNames ==
    /\ decoded.ok
    /\ MapHas(decoded.val, bytesToHex(AddressX))
    /\ \A n \in 1..Len(crafted.entries) :
            MapHas(MapGet(decoded.val, bytesToHex(AddressX)),
                   SchemaName(crafted.entries[n][1]))

(* C24: when a key of resultSchema is $const(name) and constants[name] is  *)
(* the Bech32m address of the program, decodeExecutionResult resolves the  *)
(* key to the 32-byte address, and a result group of that program is       *)
(* stored under the program's address hex with every entry whose numeric   *)
(* key is in the schema under its field name and every other entry under   *)
(* key_<N>.                                                                *)
C24_ConstantKeyResolved ==
    (/\ ResultDecoded
     /\ crafted.form = "constBech32m"
     /\ crafted.programId = AddressX) => StoredUnderSchemaNames

(* What holds: the schema is applied when the program is named by an      *)
(* $addr() reference, in the key or in the constant.                       *)
C24_AddrReferenceResolved ==
    (/\ ResultDecoded
     /\ crafted.form \in {"constAddr", "keyAddr"}
     /\ crafted.programId = AddressX) => StoredUnderSchemaNames

C24_AddrReferenceReached ==
    /\ ResultDecoded
    /\ crafted.form = "constAddr"
    /\ crafted.programId = AddressX
    /\ Len(crafted.entries) = 2
    /\ crafted.entries[1][1] = 0 /\ crafted.entries[2][1] = 2
    /\ StoredUnderSchemaNames

(***************************************************************************)
(* The Lea VM wrapper (checked under Spec).                                *)
(***************************************************************************)
DecodedWrapped == pc = "decodedWrapped"

Unwrapped == decodeTransaction(result.val.tx, [stripVmHeader |-> FALSE, manifest |-> NoManifest])

(* C21: with stripVmHeader, decodeTransaction reads the wrapped form of    *)
(* every transaction that decodes on its own and returns what decoding     *)
(* the transaction alone returns, plus vmHeader = {magic 'LEAB', version   *)
(* 1, length len(tx)}; it fails when the buffer is shorter than 13 bytes,  *)
(* the magic differs, the version byte is not 1, or the length field       *)
(* differs from the number of bytes after the header.                      *)
C21_StripVmHeader ==
    (DecodedWrapped /\ decoded.options.stripVmHeader) =>
        IF decoded.wrapper = "good"
        THEN /\ decoded.out.ok = Unwrapped.ok
             /\ Unwrapped.ok =>
                    decoded.out.val =
                        [Unwrapped.val EXCEPT !.vmHeader =
                            [magic |-> "LEAB", version |-> 1, length |-> Len(result.val.tx)]]
        ELSE ~decoded.out.ok

C21_Witness ==
    /\ DecodedWrapped /\ decoded.options.stripVmHeader
    /\ decoded.wrapper = "good"
    /\ decoded.out.ok
    /\ Len(decoded.out.val.signatures) = 1
    /\ decoded.out.val.vmHeader.length = Len(result.val.tx)

C21_SpoiltLengthReached ==
    /\ DecodedWrapped /\ decoded.options.stripVmHeader
    /\ decoded.wrapper = "longer"
    /\ Unwrapped.ok
    /\ ~decoded.out.ok

(* C22: without stripVmHeader, decodeTransaction fails on the wrapped form *)
(* of every transaction createTransaction returns, whatever the pod.       *)
C22_WrappedFailsUnstripped ==
    (DecodedWrapped /\ ~decoded.options.stripVmHeader /\ decoded.wrapper = "good") =>
        ~decoded.out.ok

(* What holds: with the default pod the wrapped transaction is refused. *)
C22_DefaultPodFailsUnstripped ==
    (/\ DecodedWrapped /\ ~decoded.options.stripVmHeader /\ decoded.wrapper = "good"
     /\ manifest.pod = <<>>) => ~decoded.out.ok

C22_DefaultPodReached ==
    /\ DecodedWrapped /\ ~decoded.options.stripVmHeader /\ decoded.wrapper = "good"
    /\ manifest.pod = <<>>
    /\ Unwrapped.ok
    /\ ~decoded.out.ok

(***************************************************************************)
(* $pubset() instructions (checked under Spec).                            *)
(***************************************************************************)
IsPubsetInstruction(ins) == ins.key = "INLINE" /\ IsStr(ins) /\ PubsetMatch(ins.str)

(* the places <<invocation, instruction>> of the manifest holding a $pubset *)
PubsetPlaces ==
    {p \in (1..Len(manifest.invocations)) \X (1..3) :
        /\ p[2] <= Len(manifest.invocations[p[1]].instructions)
        /\ IsPubsetInstruction(manifest.invocations[p[1]].instructions[p[2]])}

Contains(bytes, part) ==
    \E i \in 0..(Len(bytes) - Len(part)) : SubSeq(bytes, i + 1, i + Len(part)) = part

DecodedWithManifest ==
    pc = "decoded" /\ decoded.options.manifest # NoManifest /\ decoded.out.ok

C26_InputsUnchanged == [][manifest' = manifest /\ signerKeys' = signerKeys]_vars

(* What holds: signerKeys is never written, and of the manifest only the   *)
(* field signers is.                                                       *)
C26_OnlySignersWritten ==
    [][/\ signerKeys' = signerKeys
       /\ manifest' = [manifest EXCEPT !.signers = manifest'.signers]]_vars

C26_SignersWrittenReached ==
    /\ pc = "done"
    /\ result.ok
    /\ Len(signerKeys) = 3
    /\ Len(manifest.signers) = 3

(***************************************************************************)
(* The exit code of the verify command (checked under SpecDecode).         *)
(***************************************************************************)
VerifiedCrafted == pc = "verifiedCrafted"

AllChecksPassed ==
    verified.readable /\ verified.outcome.ok /\ verified.outcome.val.checks.fail = 0

(* C28: verify exits with a non-zero code whenever the files cannot be     *)
(* read or at least one of its checks fails (version, a field of the       *)
(* manifest, a target index, no signature pair, trailing bytes, an         *)
(* exception while parsing), and with 0 only when every check passes.      *)
C28_VerifyExitCode ==
    VerifiedCrafted => (verified.exitCode = 0 <=> AllChecksPassed)

(* What holds: a transaction that passes every check ends with code 0. *)
C28_PassingExitsZero ==
    (VerifiedCrafted /\ AllChecksPassed) => verified.exitCode = 0

C28_PassingReached ==
    /\ VerifiedCrafted /\ AllChecksPassed
    /\ HasManifestFile(verified.file)
    /\ Len(crafted.targets) = 1
    /\ verified.outcome.val.checks.pass = 11
    /\ verified.exitCode = 0

(***************************************************************************)
(* Loading of key files (checked under SpecHandler).                       *)
(***************************************************************************)
(* BLAKE3(ed25519_pk || falcon512_pk) of a well-shaped key file *)
DerivedAddress(input) == Blake3Address(input.keyset[1][2] \o input.keyset[2][2])

WellShaped(input) ==
    Len(input.keyset) = 2 /\ Len(input.keyset[1]) = 2 /\ Len(input.keyset[2]) = 2

DeclaresOtherAddress(input) ==
    \/ /\ input.addressHex # <<>>
       /\ ToLowerCase(input.addressHex) # bytesToHex(DerivedAddress(input))
    \/ /\ input.address # <<>>
       /\ ToLowerCase(input.address)
            # ToLowerCase(Bech32mEncode(ADDRESS_HRP, DerivedAddress(input)))

HandlerAfter(k) == IF k = Len(loads) THEN cryptoHandler ELSE loads[k + 1].before

(* C25: loadKeysetFromObject derives the address as BLAKE3 of the two      *)
(* public keys, fails when the key file declares another address or        *)
(* addressHex, and a failed load (bad shape or mismatch) leaves keyset and *)
(* address of the handler as they were; the handler never holds a keyset   *)
(* whose declared address disagrees with its keys.                         *)
C25_LoadIsAllOrNothing ==
    pc = "handler" =>
        \A k \in 1..Len(loads) :
            LET input == loads[k].input
                after == HandlerAfter(k)
            IN  /\ (~WellShaped(input) \/ DeclaresOtherAddress(input)) => ~loads[k].out.ok
                /\ ~loads[k].out.ok => after = loads[k].before
                /\ loads[k].out.ok =>
                    /\ after.keyset.ed25519.pk = input.keyset[1][2]
                    /\ after.keyset.falcon512.pk = input.keyset[2][2]
                    /\ after.addressUint8 = DerivedAddress(input)
                    /\ after.addressBech32m = Bech32mEncode(ADDRESS_HRP, DerivedAddress(input))
                    /\ ~DeclaresOtherAddress(input)

(* A load that fails on a mismatch after a load that succeeded. *)
C25_Witness ==
    /\ pc = "handler"
    /\ Len(loads) = 3
    /\ loads[1].out.ok
    /\ ~loads[2].out.ok /\ WellShaped(loads[2].input)
    /\ ~loads[3].out.ok /\ ~WellShaped(loads[3].input)
    /\ cryptoHandler = loads[2].before
    /\ cryptoHandler.keyset # Null

(***************************************************************************)
(* Calls in flight together (checked under SpecConcurrent).                *)
(***************************************************************************)
Ended(r) == pc = "concurrent" /\ runs[r].pc \in {"done", "failed"}

(* what the call returned, without the signature bytes *)
Outcome(r) ==
    IF runs[r].result.ok
    THEN Ok([payload  |-> runs[r].result.val.payload,
             signedBy |-> runs[r].result.val.signedBy])
    ELSE runs[r].result

AsAlone(r) == Outcome(r) = RunAlone(SharedManifest, runs[r].signerKeys)

(* C27: two createTransaction calls whose awaits interleave do not         *)
(* interfere: each returns the result or the error it returns when run     *)
(* alone, with one manifest object each and with one manifest object for   *)
(* both; a call never signs with, or counts, a signer of the other call.   *)
C27_CallsDoNotInterfere == \A r \in RunIds : Ended(r) => AsAlone(r)

(* What holds: calls on manifest objects of their own do not interfere. *)
C27_OwnManifestsDoNotInterfere ==
    \A r \in RunIds : (Ended(r) /\ Len(objects) = 2) => AsAlone(r)

C27_OwnManifestsReached ==
    /\ Len(objects) = 2
    /\ Ended(1) /\ Ended(2)
    /\ runs[1].result.ok /\ runs[2].result.ok
    /\ Len(runs[1].signedBy) = 1 /\ Len(runs[2].signedBy) = 2

====
